---- MODULE Spec2Model ----
(***************************************************************************)
(* shell-bun: configuration-driven command launcher.                      *)
(* Model of the CI-mode dispatcher and the launchers (executor.rs), the   *)
(* fuzzy matcher (matcher.rs), the configuration parser (config.rs), the  *)
(* log path generator (logger.rs) and main (main.rs).                     *)
(* Strings are sequences of one-character strings, so that splitting,     *)
(* trimming, case folding and substring search are computed as the code   *)
(* computes them.                                                          *)
(***************************************************************************)
EXTENDS Integers, Sequences, FiniteSets, TLC

NONE == "none"

\* ------------------------------------------------------------------------
\* String helpers (Rust std str methods used by the source)
\* ------------------------------------------------------------------------

\* char::to_lowercase on the characters the model uses
LowerChar(c) ==
    CASE c = "A" -> "a"
      [] c = "B" -> "b"
      [] c = "D" -> "d"
      [] c = "L" -> "l"
      [] c = "S" -> "s"
      [] c = "W" -> "w"
      [] OTHER -> c

\* str::to_lowercase
ToLower(s) == [k \in 1..Len(s) |-> LowerChar(s[k])]

\* str::contains(&str): needle occurs as a contiguous substring
Contains(hay, needle) ==
    \E k \in 0..(Len(hay) - Len(needle)) :
        SubSeq(hay, k + 1, k + Len(needle)) = needle

\* str::contains(char)
HasChar(s, c) == \E k \in 1..Len(s) : s[k] = c

\* Vec::contains
SeqContains(seq, x) == \E k \in 1..Len(seq) : seq[k] = x

IsSpace(c) == c = " "

RECURSIVE TrimStart(_)
TrimStart(s) ==
    IF Len(s) > 0 /\ IsSpace(s[1]) THEN TrimStart(Tail(s)) ELSE s

RECURSIVE TrimEnd(_)
TrimEnd(s) ==
    IF Len(s) > 0 /\ IsSpace(s[Len(s)])
    THEN TrimEnd(SubSeq(s, 1, Len(s) - 1))
    ELSE s

\* str::trim
Trim(s) == TrimEnd(TrimStart(s))

\* str::split(','): the pieces between commas; the empty string gives one
\* empty piece
RECURSIVE SplitFrom(_, _, _)
SplitFrom(s, k, cur) ==
    IF k > Len(s) THEN <<cur>>
    ELSE IF s[k] = "," THEN <<cur>> \o SplitFrom(s, k + 1, <<>>)
    ELSE SplitFrom(s, k + 1, Append(cur, s[k]))

SplitComma(s) == SplitFrom(s, 1, <<>>)

\* pattern.split(',').map(|s| s.trim()).collect()
SplitPatterns(pattern) ==
    LET parts == SplitComma(pattern)
    IN  [k \in 1..Len(parts) |-> Trim(parts[k])]

\* ------------------------------------------------------------------------
\* glob::Pattern
\* ------------------------------------------------------------------------

\* length of the run of '*' starting at position k
RECURSIVE StarRun(_, _)
StarRun(p, k) ==
    IF k <= Len(p) /\ p[k] = "*" THEN 1 + StarRun(p, k + 1) ELSE 0

\* position of the first ']' at or after k, 0 when there is none
RECURSIVE FirstClose(_, _)
FirstClose(p, k) ==
    IF k > Len(p) THEN 0
    ELSE IF p[k] = "]" THEN k
    ELSE FirstClose(p, k + 1)

\* a bracket expression opening at position i is negated: "[!" followed by
\* at least one member and the closing bracket
ClassNegated(p, i) == i + 3 <= Len(p) /\ p[i + 1] = "!"

\* position of the ']' that closes the bracket expression opening at i, 0
\* when the expression is not closed; the first character after '[' (or
\* after "[!") is always a member, a ']' included
ClassEnd(p, i) ==
    IF ClassNegated(p, i) THEN FirstClose(p, i + 3)
    ELSE IF i + 2 <= Len(p) /\ p[i + 1] # "!" THEN FirstClose(p, i + 2)
    ELSE 0

\* the characters listed by the bracket expression (the alphabet has no
\* '-', so no ranges)
ClassMembers(p, i) ==
    IF ClassNegated(p, i) THEN SubSeq(p, i + 2, ClassEnd(p, i) - 1)
    ELSE SubSeq(p, i + 1, ClassEnd(p, i) - 1)

ClassMatches(p, i, c) ==
    IF ClassNegated(p, i) THEN ~HasChar(ClassMembers(p, i), c)
    ELSE HasChar(ClassMembers(p, i), c)

\* Pattern::new succeeds: a run of three or more '*' is an error, a run
\* of exactly two must be a whole path component (no '/' in the alphabet:
\* the whole pattern), and a '[' must open a closed bracket expression
RECURSIVE GlobValidFrom(_, _)
GlobValidFrom(p, i) ==
    IF i > Len(p) THEN TRUE
    ELSE IF p[i] = "*"
         THEN LET n == StarRun(p, i)
              IN  /\ n = 1 \/ (n = 2 /\ i = 1 /\ Len(p) = 2)
                  /\ GlobValidFrom(p, i + n)
    ELSE IF p[i] = "["
         THEN ClassEnd(p, i) # 0 /\ GlobValidFrom(p, ClassEnd(p, i) + 1)
    ELSE GlobValidFrom(p, i + 1)

GlobValid(p) == GlobValidFrom(p, 1)

\* Pattern::matches: '*' any sequence, '?' any single character, a bracket
\* expression one of its members (or any other character when negated),
\* anything else itself
RECURSIVE GlobFrom(_, _, _, _)
GlobFrom(p, i, s, j) ==
    IF i > Len(p) THEN j > Len(s)
    ELSE IF p[i] = "*"
         THEN \E m \in j..(Len(s) + 1) : GlobFrom(p, i + 1, s, m)
    ELSE IF j > Len(s) THEN FALSE
    ELSE IF p[i] = "?" THEN GlobFrom(p, i + 1, s, j + 1)
    ELSE IF p[i] = "["
         THEN ClassMatches(p, i, s[j]) /\ GlobFrom(p, ClassEnd(p, i) + 1, s, j + 1)
    ELSE p[i] = s[j] /\ GlobFrom(p, i + 1, s, j + 1)

GlobMatches(p, s) == GlobValid(p) /\ GlobFrom(p, 1, s, 1)

\* ------------------------------------------------------------------------
\* matcher.rs
\* ------------------------------------------------------------------------

\* the three rules applied to one (sub-pattern, candidate) pair
ExactRule(pat, name) == pat = name

\* faulty variant: the glob rule never selects
GlobRuleNever(pat, name) == FALSE

GlobRule(pat, name) == HasChar(pat, "*") /\ GlobMatches(pat, name)

SubstringRule(pat, name) == Contains(ToLower(name), ToLower(pat))

MatchesPat(pat, name) ==
    \/ ExactRule(pat, name)
    \/ GlobRule(pat, name)
    \/ SubstringRule(pat, name)

\* faulty variant: the guard is missing
AlreadyMatchedNever(matched, name) == FALSE

\* the `matched.contains(app)` guard of the inner loop
AlreadyMatched(matched, name) == SeqContains(matched, name)

\* inner loop: one sub-pattern against every candidate in declaration order
RECURSIVE MatchOne(_, _, _, _)
MatchOne(matched, pat, names, k) ==
    IF k > Len(names) THEN matched
    ELSE IF AlreadyMatched(matched, names[k])
         THEN MatchOne(matched, pat, names, k + 1)
    ELSE IF MatchesPat(pat, names[k])
         THEN MatchOne(Append(matched, names[k]), pat, names, k + 1)
    ELSE MatchOne(matched, pat, names, k + 1)

\* outer loop: the sub-patterns in pattern order
RECURSIVE MatchAll(_, _, _, _)
MatchAll(matched, pats, names, j) ==
    IF j > Len(pats) THEN matched
    ELSE MatchAll(MatchOne(matched, pats[j], names, 1), pats, names, j + 1)

match_apps_fuzzy(apps, pattern) ==
    MatchAll(<<>>, SplitPatterns(pattern), apps, 1)

ALL == <<"a", "l", "l">>

\* faulty variant: no shortcut for "all"
match_actions_fuzzy_no_shortcut(actions, pattern) ==
    MatchAll(<<>>, SplitPatterns(pattern), actions, 1)

match_actions_fuzzy(actions, pattern) ==
    IF pattern = ALL THEN actions
    ELSE MatchAll(<<>>, SplitPatterns(pattern), actions, 1)

\* ------------------------------------------------------------------------
\* config.rs
\* ------------------------------------------------------------------------

\* Map helpers (HashMap::get / insert / contains_key)
MapHas(m, k) == k \in DOMAIN m

MapGet(m, k) == IF k \in DOMAIN m THEN m[k] ELSE NONE

MapInsert(m, k, v) == (k :> v) @@ m

EmptyMap == [k \in {} |-> NONE]

\* A configuration file after line tokenisation: each non-blank,
\* non-comment line is a section header [name] or a key=value pair
\* (both already trimmed, as lines 35, 44, 58 and 59 do).
Sec(name) == [kind |-> "section", name |-> name]

KV(key, value) == [kind |-> "kv", key |-> key, value |-> value]

EmptyConfig ==
    [apps |-> <<>>, actions |-> EmptyMap, app_actions |-> EmptyMap,
     working_dirs |-> EmptyMap, log_dirs |-> EmptyMap,
     global_log_dir |-> NONE, global_container |-> NONE]

WORKING_DIR == <<"working_dir">>

LOG_DIR == <<"log_dir">>

CONTAINER == <<"container">>

\* format!("{}:{}", app, key)
ActionKey(app, action) == app \o <<":">> \o action

\* the body of the line loop: st = [config, current_app]
ParseLine(st, line) ==
    LET config == st.config
        cur == st.current_app
    IN
    IF line.kind = "section"
    THEN IF line.name = <<>> THEN st
         ELSE [current_app |-> line.name,
               config |->
                 [config EXCEPT
                    !.apps = IF SeqContains(config.apps, line.name)
                             THEN @ ELSE Append(@, line.name),
                    !.app_actions = IF MapHas(@, line.name)
                                    THEN @ ELSE MapInsert(@, line.name, <<>>)]]
    ELSE IF line.key = <<>> THEN st
    ELSE IF cur # NONE
    THEN IF line.key = WORKING_DIR
         THEN [st EXCEPT !.config.working_dirs = MapInsert(@, cur, line.value)]
         ELSE IF line.key = LOG_DIR
         THEN [st EXCEPT !.config.log_dirs = MapInsert(@, cur, line.value)]
         ELSE [st EXCEPT
                 !.config.actions = MapInsert(@, ActionKey(cur, line.key), line.value),
                 !.config.app_actions =
                     MapInsert(@, cur, Append(MapGet(@, cur), line.key))]
    ELSE IF line.key = LOG_DIR
         THEN [st EXCEPT !.config.global_log_dir = line.value]
         ELSE IF line.key = CONTAINER
         THEN [st EXCEPT !.config.global_container = line.value]
         ELSE st

RECURSIVE ParseLines(_, _, _)
ParseLines(st, lines, k) ==
    IF k > Len(lines) THEN st
    ELSE ParseLines(ParseLine(st, lines[k]), lines, k + 1)

\* Config::from_file: Err when no application section was found
from_file(lines) ==
    LET st == ParseLines([config |-> EmptyConfig, current_app |-> NONE], lines, 1)
    IN  IF st.config.apps = <<>>
        THEN [ok |-> FALSE, config |-> EmptyConfig]
        ELSE [ok |-> TRUE, config |-> st.config]

\* faulty variant: the lookup key lacks the application
get_command_unprefixed(config, app, action) == MapGet(config.actions, action)

get_command(config, app, action) == MapGet(config.actions, ActionKey(app, action))

get_actions(config, app) ==
    IF MapHas(config.app_actions, app) THEN config.app_actions[app] ELSE <<>>

\* ------------------------------------------------------------------------
\* Inputs of the model: names, configuration files, patterns
\* ------------------------------------------------------------------------

api == <<"a", "p", "i">>

api2 == <<"a", "p", "i", "2">>

web == <<"W", "e", "b">>

docs == <<"d", "o", "c", "s">>

build == <<"b", "u", "i", "l", "d">>

test == <<"t", "e", "s", "t">>

Join(a, b) == a \o <<",">> \o b

\* two applications, one with a working directory
FileA ==
    << Sec(api), KV(build, <<"make">>), KV(test, <<"make test">>),
       Sec(web), KV(WORKING_DIR, <<"/srv/web">>), KV(build, <<"npm run build">>) >>

\* an application name contained in another, a repeated action key, an
\* application without actions, per-application and global log directories
FileB ==
    << KV(LOG_DIR, <<"/", "v">>),
       Sec(api), KV(build, <<"make">>),
       Sec(api2), KV(LOG_DIR, <<"~", "/", "l">>), KV(build, <<"make v2">>), KV(build, <<"make v2b">>),
       Sec(docs) >>

\* a global container command
FileC ==
    << KV(CONTAINER, <<"docker run img">>),
       Sec(api), KV(WORKING_DIR, <<"/work">>), KV(build, <<"make">>), KV(test, <<"make test">>) >>

\* no application section: from_file fails
FileNoApps == << KV(LOG_DIR, <<"/", "v">>) >>

zz == <<"z", "z">>

api_v2 == <<"a", "p", "i", "_", "v", "2">>

v2_test == <<"v", "2", "_", "t", "e", "s", "t">>

\* names with underscores, and a log directory relative to the executable
FileU ==
    << Sec(api), KV(v2_test, <<"make v2-test">>),
       Sec(api_v2), KV(test, <<"make test">>),
       Sec(docs), KV(LOG_DIR, <<"l">>), KV(build, <<"make docs">>) >>

\* The invocations the model runs: a configuration file, the --container
\* option, and the two patterns of `--ci APP_PATTERN ACTION_PATTERN`
\* `exists` tells whether the file at config_path exists; `trailing` is a
\* third argument after the two patterns
NoTrailing == [given |-> FALSE, name |-> <<>>, exists |-> FALSE, file |-> <<>>]

Trailing(name, exists, file) ==
    [given |-> TRUE, name |-> name, exists |-> exists, file |-> file]

my_cfg == <<"m", "y", ".", "c", "f", "g">>

my_txt == <<"m", "y", ".", "t", "x", "t">>

Invocations(files, containers, app_patterns, action_patterns) ==
    [file : files, exists : {TRUE}, container : containers,
     app_pattern : app_patterns, action_pattern : action_patterns,
     trailing : {NoTrailing}]

\* `--ci api build <third argument>`
TrailingInvocations(files, exist, containers, trailings) ==
    [file : files, exists : exist, container : containers,
     app_pattern : {api}, action_pattern : {build}, trailing : trailings]

Scenarios ==
    \* host execution, action order given by the pattern
    Invocations({FileA}, {NONE},
                {api, <<"w", "e", "b">>, zz},
                {ALL, build, zz, Join(test, build)})
    \* three targets, matched order differs from declaration order
    \cup Invocations({FileA}, {NONE}, {Join(web, api)}, {ALL, zz})
    \* substring matches, a repeated action, an application without actions
    \cup Invocations({FileB}, {NONE},
                {api, Join(api2, docs), docs},
                {ALL, build, test})
    \* container execution, from the configuration or the command line
    \cup Invocations({FileC}, {NONE, "podman run img"},
                {api, <<"*">>},
                {ALL, build, zz})
    \cup Invocations({FileA}, {"podman run img"}, {Join(web, api)}, {build})
    \* a configuration without applications
    \cup Invocations({FileNoApps}, {NONE}, {api}, {build})
    \* a third argument naming another configuration, with and without
    \* a container command of its own
    \cup TrailingInvocations({FileA}, {TRUE}, {NONE, "podman run img"},
                {Trailing(my_cfg, TRUE, FileC), Trailing(my_cfg, TRUE, FileB)})
    \cup TrailingInvocations({FileC}, {TRUE}, {NONE}, {Trailing(my_cfg, TRUE, FileA)})
    \* no shell-bun.cfg in the current directory
    \cup TrailingInvocations({<<>>}, {FALSE}, {NONE},
                {NoTrailing, Trailing(my_cfg, TRUE, FileA)})
    \* a third argument that is not an existing .cfg file, or not loadable
    \cup TrailingInvocations({FileA}, {TRUE}, {NONE},
                {Trailing(my_txt, TRUE, FileC), Trailing(my_cfg, FALSE, <<>>),
                 Trailing(my_cfg, TRUE, FileNoApps)})

\* subprocess exit codes 0..MaxExit, or termination by a signal
MaxExit == 1

ExitStatuses ==
    {[signalled |-> FALSE, code |-> c] : c \in 0..MaxExit}
        \cup {[signalled |-> TRUE, code |-> 0]}

\* a task whose subprocess has not exited has no exit status
NoStatus == [signalled |-> FALSE, code |-> -1]

\* a process that has not exited has no exit code
NoExitCode == NoStatus.code

\* ------------------------------------------------------------------------
\* executor.rs: execute_command and its helpers
\* ------------------------------------------------------------------------

\* faulty variant: the existence check is missing
resolve_working_dir_unchecked(is_container, exists) == "Ok"

\* faulty variant: the existence check is made in container mode too
resolve_working_dir_checked_everywhere(is_container, exists) ==
    IF exists THEN "Ok" ELSE "Err"

\* resolve_working_dir: Err only on the host, when the resolved directory
\* (the configured one, or the executable's directory) does not exist
resolve_working_dir(is_container, exists) ==
    IF is_container THEN "Ok"
    ELSE IF exists THEN "Ok" ELSE "Err"

\* seconds of the wall clock within which the tasks of a dispatch start
MaxSecond == 1

Seconds == 0..MaxSecond

\* the directory of the executable (script_dir) and the user's home
ScriptDir == <<"/", "x">>

HomeDir == <<"/", "h">>

\* dirs::home_dir(): Some(home), or None
home_dir(homeOk) == IF homeOk THEN HomeDir ELSE NONE

StartsWith(s, c) == Len(s) > 0 /\ s[1] = c

\* Path::join with a relative path
JoinPath(dir, name) == IF name = <<>> THEN dir ELSE dir \o <<"/">> \o name

\* expand_path: a leading '~' becomes the home directory (when there is
\* one); an absolute path stays, a relative one is taken from script_dir
expand_path(path, home) ==
    LET expanded == IF StartsWith(path, "~") /\ home # NONE
                    THEN home \o Tail(path)
                    ELSE path
    IN  IF StartsWith(expanded, "/") THEN expanded
        ELSE JoinPath(ScriptDir, expanded)

LOGS == <<"l", "o", "g", "s">>

\* faulty variant: the global log directory wins over the application's
LogDirChoiceGlobalFirst(config, app, home) ==
    IF config.global_log_dir # NONE THEN expand_path(config.global_log_dir, home)
    ELSE IF MapHas(config.log_dirs, app) THEN expand_path(config.log_dirs[app], home)
    ELSE JoinPath(ScriptDir, LOGS)

\* lines 16-22: the log directory by precedence
LogDirChoice(config, app, home) ==
    IF MapHas(config.log_dirs, app) THEN expand_path(config.log_dirs[app], home)
    ELSE IF config.global_log_dir # NONE THEN expand_path(config.global_log_dir, home)
    ELSE JoinPath(ScriptDir, LOGS)

Digits == <<"0", "1", "2", "3", "4", "5", "6", "7", "8", "9">>

\* Local::now().format("%Y%m%d_%H%M%S"): date, '_', time of day; the
\* seconds of a dispatch differ in their last digit
Timestamp(now) == <<"D", "_", "T", Digits[now + 1]>>

\* format!("{}_{}_{}.log", timestamp, app, action)
LogFileName(now, app, action) ==
    Timestamp(now) \o <<"_">> \o app \o <<"_">> \o action \o <<".", "l", "o", "g">>

\* Logger::generate_log_path: the directory is created on demand; when it
\* cannot be created the file goes into script_dir.
\* env: dirOk (create_dir_all succeeded), now, home
generate_log_path(config, app, action, env) ==
    LET dir == IF env.dirOk THEN LogDirChoice(config, app, env.home) ELSE ScriptDir
    IN  [dir |-> dir,
         path |-> JoinPath(dir, LogFileName(env.now, app, action)),
         dirCreated |-> env.dirOk]

\* Logger::log_execution_status
StatusLine(status, app, action) == [status |-> status, app |-> app, action |-> action]

\* faulty variant: a signal counts as exit code 0
ExitCodeSignalZero(status) == IF status.signalled THEN 0 ELSE status.code

\* status.code().unwrap_or(1)
ExitCode(status) == IF status.signalled THEN 1 ELSE status.code

NewTask(app, action) ==
    [app |-> app, action |-> action, pc |-> "spawned", result |-> NONE,
     error |-> NONE, launched |-> FALSE, wdExists |-> TRUE,
     logDirCreated |-> FALSE, logFileCreated |-> FALSE, stage |-> "none",
     subprocess |-> "none", status |-> NoStatus, lines |-> <<>>,
     show_output |-> FALSE, stdio |-> "none", log_writer |-> "none"]

Failed(t, err) == [t EXCEPT !.pc = "done", !.result = "Err", !.error = err]

\* the show_output argument execute_command gets from each of its callers
ShowOutputAt(caller) == caller = "execute_single"

\* faulty variant: every caller asks for terminal output
ShowOutputAlways(caller) == TRUE

\* faulty variant: the subprocess is spawned before the log file is created
LaunchLogOnlySpawnFirst(t, env) ==
    LET t1 == [t EXCEPT !.stdio = "log_file", !.log_writer = "subprocess"]
    IN  IF ~env.spawnOk THEN Failed(t1, "SpawnError")
        ELSE IF ~env.fileOk
             THEN Failed([t1 EXCEPT !.subprocess = "running"], "LogFileCreateError")
        ELSE [t1 EXCEPT !.logFileCreated = TRUE, !.pc = "running",
                        !.subprocess = "running"]

\* log-only launch (the else branches at lines 290-299 and 322-336):
\* File::create, then stdout and stderr of the subprocess go to the file,
\* then the spawn
LaunchLogOnly(t, env) ==
    LET t1 == [t EXCEPT !.stdio = "log_file", !.log_writer = "subprocess"]
    IN  IF ~env.fileOk THEN Failed(t1, "LogFileCreateError")
        ELSE IF ~env.spawnOk
             THEN Failed([t1 EXCEPT !.logFileCreated = TRUE], "SpawnError")
        ELSE [t1 EXCEPT !.logFileCreated = TRUE, !.pc = "running",
                        !.subprocess = "running"]

\* terminal-visible launch: stdout and stderr are inherited and the program
\* creates no file; with tee the log file is written by the tee process of
\* the spawned pipeline (if tee can open it)
LaunchInherit(t, env, tee) ==
    LET t1 == [t EXCEPT !.stdio = "inherit",
                        !.log_writer = IF tee THEN "tee" ELSE "none"]
    IN  IF ~env.spawnOk THEN Failed(t1, "SpawnError")
        ELSE [t1 EXCEPT !.logFileCreated = tee /\ env.fileOk, !.pc = "running",
                        !.subprocess = "running"]

\* faulty variant: the container launch tees like the host launch
execute_in_container_tee(t, show_output, env) ==
    IF show_output THEN LaunchInherit(t, env, TRUE) ELSE LaunchLogOnly(t, env)

\* execute_in_container up to cmd.status()
execute_in_container(t, show_output, env) ==
    IF show_output THEN LaunchInherit(t, env, FALSE) ELSE LaunchLogOnly(t, env)

\* execute_direct up to cmd.status()
execute_direct(t, show_output, env) ==
    IF show_output THEN LaunchInherit(t, env, TRUE) ELSE LaunchLogOnly(t, env)

\* execute_command up to the point where the subprocess has been spawned
\* (lines 146-183 with execute_direct / execute_in_container up to
\* cmd.status()).
\* env: what the operating system answers: wdExists, dirOk, fileOk, spawnOk,
\* now, home
execute_command_launch(config, t0, container_command, show_output, env) ==
    LET t == [t0 EXCEPT !.launched = TRUE, !.wdExists = env.wdExists,
                        !.show_output = show_output]
        is_container == container_command # NONE
    IN
    IF get_command(config, t.app, t.action) = NONE
    THEN Failed(t, "NoCommand")
    ELSE IF resolve_working_dir(is_container, env.wdExists) = "Err"
    THEN Failed(t, "WorkingDirectoryNotFound")
    ELSE
      LET log_file == generate_log_path(config, t.app, t.action, env)
          t1 == [t EXCEPT !.logDirCreated = log_file.dirCreated,
                          !.lines = Append(@, StatusLine("Start", t.app, t.action)),
                          !.stage = IF is_container THEN "execute_in_container"
                                    ELSE "execute_direct"]
      IN  IF is_container THEN execute_in_container(t1, show_output, env)
          ELSE execute_direct(t1, show_output, env)

\* execute_command after the subprocess has exited (lines 185-194)
execute_command_finish(t, status) ==
    LET exit_code == ExitCode(status)
    IN  IF exit_code = 0
        THEN [t EXCEPT !.pc = "done", !.result = "OkTrue", !.status = status,
                       !.subprocess = "exited",
                       !.lines = Append(@, StatusLine("Success", t.app, t.action))]
        ELSE [t EXCEPT !.pc = "done", !.result = "OkFalse", !.status = status,
                       !.subprocess = "exited",
                       !.lines = Append(@, StatusLine("Error", t.app, t.action))]

\* ------------------------------------------------------------------------
\* executor.rs: execute_ci_mode
\* ------------------------------------------------------------------------

\* format!("{} - {}", app, action)
Label(app, action) == app \o <<" ", "-", " ">> \o action

\* faulty variant: an application without matching actions ends the
\* resolution with nothing to run
RECURSIVE CollectTargetsAbortOnEmpty(_, _, _, _, _)
CollectTargetsAbortOnEmpty(config, apps, action_pattern, k, acc) ==
    IF k > Len(apps) THEN acc
    ELSE
      LET app == apps[k]
          matched_actions == match_actions_fuzzy(get_actions(config, app), action_pattern)
      IN  IF matched_actions = <<>>
          THEN [acc EXCEPT !.warnings = Append(@, app), !.handles = <<>>,
                           !.found_any_action = FALSE]
          ELSE CollectTargetsAbortOnEmpty(config, apps, action_pattern, k + 1,
                 [acc EXCEPT
                    !.found_any_action = TRUE,
                    !.handles = @ \o [j \in 1..Len(matched_actions) |->
                                        <<app, matched_actions[j]>>]])

\* the resolution loop (lines 30-67): per matched application, its matched
\* actions become handles; an application without any only warns
RECURSIVE CollectTargets(_, _, _, _, _)
CollectTargets(config, apps, action_pattern, k, acc) ==
    IF k > Len(apps) THEN acc
    ELSE
      LET app == apps[k]
          matched_actions == match_actions_fuzzy(get_actions(config, app), action_pattern)
      IN  IF matched_actions = <<>>
          THEN CollectTargets(config, apps, action_pattern, k + 1,
                 [acc EXCEPT !.warnings = Append(@, app)])
          ELSE CollectTargets(config, apps, action_pattern, k + 1,
                 [acc EXCEPT
                    !.found_any_action = TRUE,
                    !.handles = @ \o [j \in 1..Len(matched_actions) |->
                                        <<app, matched_actions[j]>>]])

NoTargets == [handles |-> <<>>, warnings |-> <<>>, found_any_action |-> FALSE]

\* faulty variant: the check is missing
NoActionsFoundNever(found_any_action, handles) == FALSE

\* line 69: if !found_any_action || handles.is_empty()
NoActionsFound(found_any_action, handles) ==
    ~found_any_action \/ handles = <<>>

\* faulty variant: an Err result leaves the await loop (as `?` would)
HandleOutcomeBailOnError(res) ==
    IF res = "OkTrue"
    THEN [success |-> 1, failure |-> 0, push |-> FALSE, diag |-> FALSE, leave |-> FALSE]
    ELSE IF res = "OkFalse"
    THEN [success |-> 0, failure |-> 1, push |-> TRUE, diag |-> FALSE, leave |-> FALSE]
    ELSE [success |-> 0, failure |-> 1, push |-> TRUE, diag |-> res = "JoinErr",
          leave |-> TRUE]

\* faulty variant: an Err result is counted nowhere
HandleOutcomeErrUncounted(res) ==
    IF res = "OkTrue"
    THEN [success |-> 1, failure |-> 0, push |-> FALSE, diag |-> FALSE, leave |-> FALSE]
    ELSE IF res = "OkFalse"
    THEN [success |-> 0, failure |-> 1, push |-> TRUE, diag |-> FALSE, leave |-> FALSE]
    ELSE [success |-> 0, failure |-> 0, push |-> FALSE, diag |-> res = "JoinErr",
          leave |-> FALSE]

\* the match on handle.await (lines 94-107): what each task result adds to
\* the totals; no arm leaves the loop
HandleOutcome(res) ==
    IF res = "OkTrue"
    THEN [success |-> 1, failure |-> 0, push |-> FALSE, diag |-> FALSE, leave |-> FALSE]
    ELSE IF res \in {"OkFalse", "Err"}
    THEN [success |-> 0, failure |-> 1, push |-> TRUE, diag |-> FALSE, leave |-> FALSE]
    ELSE [success |-> 0, failure |-> 1, push |-> TRUE, diag |-> TRUE, leave |-> FALSE]

\* faulty variant: the handle is polled, not awaited
HandleReadyAlways(t) == TRUE

\* handle.await (line 94) returns once the task has run to its end
HandleReady(t) == t.pc = "done"

\* faulty variant: the label is put in front
PushFailedFront(failed_commands, label) == <<label>> \o failed_commands

\* failed_commands.push(label)
PushFailed(failed_commands, label) == Append(failed_commands, label)

\* faulty variant: failures do not change the exit code
ExitCodeForAlwaysZero(failures) == 0

\* lines 117-134: std::process::exit(1) if total_failure > 0, else exit(0)
ExitCodeFor(failures) == IF failures > 0 THEN 1 ELSE 0

\* the summary block (lines 112-127), printed for more than one action
SummaryLines(successes, failures, failed_commands) ==
    << [kind |-> "summary", executed |-> successes + failures,
        successful |-> successes] >>
    \o (IF failures > 0
        THEN << [kind |-> "failed_operations", n |-> failures] >>
             \o [k \in 1..Len(failed_commands) |->
                   [kind |-> "failed_command", label |-> failed_commands[k]]]
        ELSE << [kind |-> "all_succeeded"] >>)

\* ------------------------------------------------------------------------
\* State
\* ------------------------------------------------------------------------

VARIABLES
    config_file,        \* the content of the file at config_path
    config_exists,      \* whether the file at config_path exists
    trailing,           \* ci_args[2], the argument after the two patterns
    cli_container,      \* --container on the command line, or NONE
    app_pattern,        \* ci_args[0]
    action_pattern,     \* ci_args[1]
    pc,                 \* position of main / execute_ci_mode
    config,             \* the loaded Config
    container_command,  \* the container command in effect, or NONE
    matched_apps,       \* execute_ci_mode: matched_apps
    tasks,              \* handles: one spawned task per target, in dispatch order
    awaitIdx,           \* index of the handle the await loop is waiting for
    total_success,
    total_failure,
    failed_commands,
    stdout,             \* lines printed by execute_ci_mode itself
    stderr,
    ci_result,          \* NONE, or the error execute_ci_mode returned
    exit_code,          \* the process exit code, NoExitCode while running
    overtaken,          \* history: some task finished before an earlier-dispatched one
    log_files,          \* history: the log path generated for each task
    m_apps,             \* matcher check: candidate names
    m_pattern,          \* matcher check: pattern
    m_out,              \* matcher check: result
    m_pc,
    m_fn,               \* matcher check: the function applied
    esc_fn,             \* quoting check: the function applied
    esc_args,           \* quoting check: its arguments
    esc_out,            \* quoting check: the string it returned
    esc_pc,
    tui_app,            \* the App of the menu: filtered_items, selected_index,
                        \* filter, selected_items
    tui_results,        \* execute_selected: results
    launched,           \* history: the menu items the last Enter launched
    marked,             \* history: the menu items the user has marked
    raw_mode,           \* the terminal is in raw mode
    alternate_screen,   \* the terminal shows the alternate screen
    tui_error           \* NONE, or the call whose error run_interactive returns

vars ==
    << config_file, config_exists, trailing, cli_container, app_pattern,
       action_pattern, pc, config, container_command, matched_apps, tasks, awaitIdx, total_success,
       total_failure, failed_commands, stdout, stderr, ci_result, exit_code,
       overtaken, log_files, m_apps, m_pattern, m_out, m_pc, m_fn,
       esc_fn, esc_args, esc_out, esc_pc, tui_app, tui_results, launched,
       marked, raw_mode, alternate_screen, tui_error >>

inputVars ==
    << config_file, config_exists, trailing, cli_container, app_pattern,
       action_pattern >>

matchVars == << m_apps, m_pattern, m_out, m_pc, m_fn >>

aggVars == << total_success, total_failure, failed_commands >>

\* everything main and the executor work on
ciVars ==
    << inputVars, pc, config, container_command, matched_apps, tasks,
       awaitIdx, aggVars, stdout, stderr, ci_result, exit_code, overtaken,
       log_files >>

escVars == << esc_fn, esc_args, esc_out, esc_pc >>

termVars == << raw_mode, alternate_screen, tui_error >>

tuiVars == << tui_app, tui_results, launched, marked, termVars >>

\* no menu is running
TuiIdle ==
    /\ tui_app = [filtered_items |-> <<>>, selected_index |-> 0,
                  filter |-> <<>>, selected_items |-> <<>>]
    /\ tui_results = <<>>
    /\ launched = <<>>
    /\ marked = {}
    /\ raw_mode = FALSE
    /\ alternate_screen = FALSE
    /\ tui_error = NONE

EscIdle ==
    /\ esc_fn = NONE
    /\ esc_args = <<>>
    /\ esc_out = <<>>
    /\ esc_pc = "idle"

MatchIdle ==
    /\ m_apps = <<>>
    /\ m_pattern = <<>>
    /\ m_out = <<>>
    /\ m_pc = "idle"
    /\ m_fn = NONE

CiFresh ==
    /\ config = EmptyConfig
    /\ container_command = NONE
    /\ matched_apps = <<>>
    /\ tasks = <<>>
    /\ awaitIdx = 1
    /\ total_success = 0
    /\ total_failure = 0
    /\ failed_commands = <<>>
    /\ stdout = <<>>
    /\ stderr = <<>>
    /\ ci_result = NONE
    /\ exit_code = NoExitCode
    /\ overtaken = FALSE
    /\ log_files = <<>>

\* main has parsed `--ci APP_PATTERN ACTION_PATTERN [ARG] [--container CMD]`
Init ==
    /\ \E sc \in Scenarios :
         /\ config_file = sc.file
         /\ config_exists = sc.exists
         /\ trailing = sc.trailing
         /\ cli_container = sc.container
         /\ app_pattern = sc.app_pattern
         /\ action_pattern = sc.action_pattern
    /\ pc = "main"
    /\ CiFresh
    /\ MatchIdle
    /\ EscIdle
    /\ TuiIdle

\* ------------------------------------------------------------------------
\* main.rs
\* ------------------------------------------------------------------------

\* Config::from_file on a path: reading a missing file is an error
load_config(exists, lines) ==
    IF exists THEN from_file(lines) ELSE [ok |-> FALSE, config |-> EmptyConfig]

EndsWith(s, suffix) ==
    /\ Len(s) >= Len(suffix)
    /\ SubSeq(s, Len(s) - Len(suffix) + 1, Len(s)) = suffix

CFG_SUFFIX == <<".", "c", "f", "g">>

\* main, line 127: the last CI argument is taken for a configuration file
IsTrailingConfig(t) == t.given /\ EndsWith(t.name, CFG_SUFFIX) /\ t.exists

\* main, lines 115-119: the container command is chosen once, from the
\* configuration at config_path
ContainerChoice(cli, default_config, used_config) ==
    IF cli # NONE THEN cli ELSE default_config.global_container

\* main, lines 107-140: load the configuration at config_path (Err ends the
\* process with exit code 1), pick the container command, then re-load the
\* configuration from the last CI argument when that names an existing
\* .cfg file
MainLoad ==
    /\ pc = "main"
    /\ LET r == load_config(config_exists, config_file)
           r2 == IF r.ok /\ IsTrailingConfig(trailing)
                 THEN load_config(trailing.exists, trailing.file)
                 ELSE r
       IN  IF r.ok /\ r2.ok
           THEN /\ config' = r2.config
                /\ container_command' =
                     ContainerChoice(cli_container, r.config, r2.config)
                /\ pc' = "ci"
                /\ exit_code' = exit_code
           ELSE /\ pc' = "exited"
                /\ exit_code' = 1
                /\ UNCHANGED << config, container_command >>
    /\ UNCHANGED << inputVars, matched_apps, tasks, awaitIdx, aggVars, stdout,
                    stderr, ci_result, overtaken, log_files, matchVars, escVars, tuiVars >>

\* main, lines 142-150: execute_ci_mode returned Err; main returns it and the
\* process ends with exit code 1
MainReturnErr ==
    /\ pc = "ci_err"
    /\ pc' = "exited"
    /\ exit_code' = 1
    /\ UNCHANGED << inputVars, config, container_command, matched_apps, tasks,
                    awaitIdx, aggVars, stdout, stderr, ci_result, overtaken,
                    log_files, matchVars, escVars, tuiVars >>

\* ------------------------------------------------------------------------
\* execute_ci_mode
\* ------------------------------------------------------------------------

\* lines 17-86: resolution, spawning of one task per target, banner.
\* There is no await in these lines, so the dispatcher observes nothing of
\* the tasks it has spawned before it reaches the await loop.
Dispatch ==
    /\ pc = "ci"
    /\ LET apps == match_apps_fuzzy(config.apps, app_pattern)
           r == CollectTargets(config, apps, action_pattern, 1, NoTargets)
       IN
       /\ matched_apps' = apps
       /\ IF apps = <<>>
          THEN /\ stderr' = stderr \o << [kind |-> "no_applications", pattern |-> app_pattern],
                                         [kind |-> "available_applications", apps |-> config.apps] >>
               /\ ci_result' = "No matching applications"
               /\ pc' = "ci_err"
               /\ UNCHANGED << tasks, stdout >>
          ELSE IF NoActionsFound(r.found_any_action, r.handles)
          THEN /\ stderr' = stderr \o [k \in 1..Len(r.warnings) |->
                                         [kind |-> "no_actions_warning", app |-> r.warnings[k]]]
               /\ ci_result' = "No actions found"
               /\ pc' = "ci_err"
               /\ UNCHANGED << tasks, stdout >>
          ELSE /\ stderr' = stderr \o [k \in 1..Len(r.warnings) |->
                                         [kind |-> "no_actions_warning", app |-> r.warnings[k]]]
               /\ tasks' = [k \in 1..Len(r.handles) |->
                              NewTask(r.handles[k][1], r.handles[k][2])]
               /\ stdout' = IF Len(r.handles) # 1
                            THEN stdout \o << [kind |-> "banner", n |-> Len(r.handles)] >>
                            ELSE stdout
               /\ ci_result' = ci_result
               /\ pc' = "await"
    /\ UNCHANGED << inputVars, config, container_command, awaitIdx, aggVars,
                    exit_code, overtaken, log_files, matchVars, escVars, tuiVars >>

\* a spawned task runs execute_command up to the spawn of its subprocess
TaskLaunch(i) ==
    /\ pc = "await"
    /\ tasks[i].pc = "spawned"
    /\ \E wdExists \in BOOLEAN, dirOk \in BOOLEAN, fileOk \in BOOLEAN,
          spawnOk \in BOOLEAN, now \in Seconds, homeOk \in BOOLEAN :
         LET env == [wdExists |-> wdExists, dirOk |-> dirOk, fileOk |-> fileOk,
                     spawnOk |-> spawnOk, now |-> now, home |-> home_dir(homeOk)]
             t == execute_command_launch(config, tasks[i], container_command,
                                         ShowOutputAt("execute_ci_mode"), env)
         IN  /\ tasks' = [tasks EXCEPT ![i] = t]
             /\ overtaken' = (overtaken \/ (t.pc = "done" /\
                                \E j \in 1..(i - 1) : tasks[j].pc # "done"))
    /\ UNCHANGED << inputVars, pc, config, container_command, matched_apps,
                    awaitIdx, aggVars, stdout, stderr, ci_result, exit_code,
                    log_files, matchVars, escVars, tuiVars >>

\* the subprocess of a task exits, or is killed by a signal
TaskExit(i) ==
    /\ pc = "await"
    /\ tasks[i].pc = "running"
    /\ \E status \in ExitStatuses :
         tasks' = [tasks EXCEPT ![i] = execute_command_finish(tasks[i], status)]
    /\ overtaken' = (overtaken \/ \E j \in 1..(i - 1) : tasks[j].pc # "done")
    /\ UNCHANGED << inputVars, pc, config, container_command, matched_apps,
                    awaitIdx, aggVars, stdout, stderr, ci_result, exit_code,
                    log_files, matchVars, escVars, tuiVars >>

\* a task panics: its JoinHandle yields Err(JoinError)
TaskPanic(i) ==
    /\ pc = "await"
    /\ tasks[i].pc \in {"spawned", "running"}
    /\ tasks' = [tasks EXCEPT ![i].pc = "done", ![i].result = "JoinErr"]
    /\ overtaken' = (overtaken \/ \E j \in 1..(i - 1) : tasks[j].pc # "done")
    /\ UNCHANGED << inputVars, pc, config, container_command, matched_apps,
                    awaitIdx, aggVars, stdout, stderr, ci_result, exit_code,
                    log_files, matchVars, escVars, tuiVars >>

\* one iteration of the await loop (lines 93-108): handle.await returns once
\* the task is done
AwaitHandle ==
    /\ pc = "await"
    /\ awaitIdx <= Len(tasks)
    /\ HandleReady(tasks[awaitIdx])
    /\ LET t == tasks[awaitIdx]
           o == HandleOutcome(t.result)
       IN  /\ total_success' = total_success + o.success
           /\ total_failure' = total_failure + o.failure
           /\ failed_commands' =
                IF o.push THEN PushFailed(failed_commands, Label(t.app, t.action))
                ELSE failed_commands
           /\ stderr' = IF o.diag
                        THEN Append(stderr, [kind |-> "error_waiting", handle |-> awaitIdx])
                        ELSE stderr
           /\ IF o.leave
              THEN /\ pc' = "ci_err"
                   /\ ci_result' = "task error"
              ELSE /\ pc' = pc
                   /\ ci_result' = ci_result
    /\ awaitIdx' = awaitIdx + 1
    /\ UNCHANGED << inputVars, config, container_command, matched_apps, tasks,
                    stdout, exit_code, overtaken, log_files, matchVars, escVars, tuiVars >>

\* lines 110-135: the summary (more than one action) and process::exit
Summarize ==
    /\ pc = "await"
    /\ awaitIdx > Len(tasks)
    /\ stdout' = IF Len(tasks) # 1
                 THEN stdout \o SummaryLines(total_success, total_failure, failed_commands)
                 ELSE stdout
    /\ exit_code' = ExitCodeFor(total_failure)
    /\ pc' = "exited"
    /\ UNCHANGED << inputVars, config, container_command, matched_apps, tasks,
                    awaitIdx, aggVars, stderr, ci_result, overtaken, log_files, matchVars, escVars, tuiVars >>

Next ==
    \/ MainLoad
    \/ MainReturnErr
    \/ Dispatch
    \/ \E i \in 1..Len(tasks) : TaskLaunch(i)
    \/ \E i \in 1..Len(tasks) : TaskExit(i)
    \/ \E i \in 1..Len(tasks) : TaskPanic(i)
    \/ AwaitHandle
    \/ Summarize

Spec == Init /\ [][Next]_vars

\* ------------------------------------------------------------------------
\* Progress of a CI invocation
\* ------------------------------------------------------------------------

LiveScenarios == Invocations({FileA}, {NONE}, {api, zz}, {ALL, build})

InitLive ==
    /\ \E sc \in LiveScenarios :
         /\ config_file = sc.file
         /\ config_exists = sc.exists
         /\ trailing = sc.trailing
         /\ cli_container = sc.container
         /\ app_pattern = sc.app_pattern
         /\ action_pattern = sc.action_pattern
    /\ pc = "main"
    /\ CiFresh
    /\ MatchIdle
    /\ EscIdle
    /\ TuiIdle

\* main and execute_ci_mode run on the tokio runtime, which keeps polling
\* the main future and every spawned task: each of their steps is taken
\* once it can be. Nothing makes a subprocess exit, and nothing makes a
\* task panic.
Fairness ==
    /\ WF_vars(MainLoad)
    /\ WF_vars(MainReturnErr)
    /\ WF_vars(Dispatch)
    /\ WF_vars(\E i \in 1..Len(tasks) : TaskLaunch(i))
    /\ WF_vars(AwaitHandle)
    /\ WF_vars(Summarize)

SpecLive == InitLive /\ [][Next]_vars /\ Fairness

\* ------------------------------------------------------------------------
\* Matcher check: match_apps_fuzzy applied to bounded inputs
\* ------------------------------------------------------------------------

\* sub-patterns per pattern
MaxSubPatterns == 2

\* application names a configuration can declare (trimmed, non-empty)
AppNames == {api, api2, web, docs}

\* config.apps: distinct names in declaration order
AppLists ==
    {<<a>> : a \in AppNames}
    \cup {l \in {<<a, b>> : a, b \in AppNames} : l[1] # l[2]}
    \cup {l \in {<<a, b, c>> : a, b, c \in AppNames} :
            l[1] # l[2] /\ l[1] # l[3] /\ l[2] # l[3]}

SeqToSet(seq) == {seq[k] : k \in 1..Len(seq)}

\* a sub-pattern as typed: the name, or the name with blanks around it
Padded(name) == {name, <<" ">> \o name \o <<" ">>}

RECURSIVE JoinAll(_)
JoinAll(parts) ==
    IF Len(parts) = 1 THEN parts[1]
    ELSE Join(parts[1], JoinAll(Tail(parts)))

RECURSIVE SeqsUpTo(_, _)
SeqsUpTo(S, n) ==
    IF n = 0 THEN {<<>>}
    ELSE LET shorter == SeqsUpTo(S, n - 1)
         IN  shorter \cup {Append(q, e) : q \in shorter, e \in S}

\* comma-separated lists of 1..MaxSubPatterns names of the given applications
ExactNamePatterns(apps) ==
    LET atoms == UNION {Padded(a) : a \in SeqToSet(apps)}
    IN  {JoinAll(q) : q \in SeqsUpTo(atoms, MaxSubPatterns) \ {<<>>}}

CiIdle ==
    /\ config_file = <<>>
    /\ config_exists = FALSE
    /\ trailing = NoTrailing
    /\ cli_container = NONE
    /\ app_pattern = <<>>
    /\ action_pattern = <<>>
    /\ pc = "idle"
    /\ CiFresh

install == <<"i", "n", "s", "t", "a", "l", "l">>

\* action names an application can declare
ActionNames == {build, test, install}

\* an application's action list: names in declaration order; a key declared
\* twice is listed twice
ActionLists ==
    {<<a>> : a \in ActionNames}
    \cup {l \in {<<a, b>> : a, b \in ActionNames} : l[1] # l[2]}
    \cup {l \in {<<a, b, c>> : a, b, c \in ActionNames} :
            l[1] # l[2] /\ l[1] # l[3] /\ l[2] # l[3]}
    \cup {<<build, test, build>>}

\* patterns with glob wildcard characters: valid and invalid glob patterns,
\* with and without a '*'
WildPatterns ==
    { <<"a", "p", "?">>, <<"a", "p", "*">>, <<"a", "?", "i", "*">>,
      <<"*">>, <<"*", "2">>, <<"*", "*">>, <<"*", "*", "*">>,
      <<"W", "*">>, <<"w", "*">>, <<"[", "!", "a", "]", "*">>, <<"[", "a", "*">>,
      <<"[", "a", "b", "]", "u", "i", "l", "d">>,
      <<"[", "a", "b", "]", "u", "i", "l", "*">>,
      <<"t", "?", "s", "*">>, <<"?", "?", "?", "?">>,
      Join(<<"a", "p", "?">>, <<"*", "2">>),
      Join(<<"*", "s", "*">>, <<" ", "b", "*">>) }

\* action patterns around the literal "all"
AllPatterns ==
    { ALL, <<"A", "L", "L">>, <<" ">> \o ALL, Join(ALL, build), Join(build, ALL) }

\* patterns with an empty sub-pattern: the empty pattern, a blank one, a
\* leading or trailing comma, two adjacent commas
EmptySubPatterns ==
    { <<>>, <<" ">>, <<",">>, Join(api, <<>>), Join(<<>>, api),
      Join(build, <<>>), Join(<<>>, test), Join(api, Join(<<>>, web)),
      Join(build, Join(<<" ">>, test)), Join(zz, <<>>) }

InitMatch ==
    /\ m_fn \in {"apps", "actions"}
    /\ m_apps \in IF m_fn = "apps" THEN AppLists ELSE ActionLists
    /\ m_pattern \in ExactNamePatterns(m_apps) \cup WildPatterns
                        \cup EmptySubPatterns
                        \cup (IF m_fn = "actions" THEN AllPatterns ELSE {})
    /\ m_out = <<>>
    /\ m_pc = "call"
    /\ CiIdle
    /\ EscIdle
    /\ TuiIdle

MatchApps ==
    /\ m_pc = "call"
    /\ m_fn = "apps"
    /\ m_out' = match_apps_fuzzy(m_apps, m_pattern)
    /\ m_pc' = "done"
    /\ UNCHANGED << m_apps, m_pattern, m_fn, inputVars, pc, config,
                    container_command, matched_apps, tasks, awaitIdx, aggVars,
                    stdout, stderr, ci_result, exit_code, overtaken, log_files,
                    escVars, tuiVars >>

MatchActions ==
    /\ m_pc = "call"
    /\ m_fn = "actions"
    /\ m_out' = match_actions_fuzzy(m_apps, m_pattern)
    /\ m_pc' = "done"
    /\ UNCHANGED << m_apps, m_pattern, m_fn, inputVars, pc, config,
                    container_command, matched_apps, tasks, awaitIdx, aggVars,
                    stdout, stderr, ci_result, exit_code, overtaken, log_files,
                    escVars, tuiVars >>

NextMatch == MatchApps \/ MatchActions

SpecMatch == InitMatch /\ [][NextMatch]_vars

\* ------------------------------------------------------------------------
\* execute_command as called by each of its callers
\* ------------------------------------------------------------------------

\* the callers of execute_command: the CI dispatcher, and in the menu the
\* bulk execution of the marked items and the execution of a single item
Callers == {"execute_ci_mode", "execute_selected", "execute_single"}

\* run_interactive, lines 25-31: the Action items of the menu
MenuActions(cfg) == CollectTargets(cfg, cfg.apps, ALL, 1, NoTargets).handles

\* the targets a caller runs: the resolver output of a CI invocation, two
\* marked menu items, or the menu item under the cursor
DispatchesOf(cfg, caller) ==
    IF caller = "execute_ci_mode"
    THEN {h \in {CollectTargets(cfg, match_apps_fuzzy(cfg.apps, p), ALL, 1,
                                 NoTargets).handles : p \in {api, api2, docs}} :
            Len(h) \in {1, 2}}
    ELSE IF caller = "execute_selected"
    THEN LET items == 1..Len(MenuActions(cfg))
         IN  {<<MenuActions(cfg)[q[1]], MenuActions(cfg)[q[2]]>> :
                q \in {r \in items \X items : r[1] < r[2]}}
    ELSE {<<MenuActions(cfg)[i]>> : i \in 1..Len(MenuActions(cfg))}

ExecFiles == {FileA, FileB, FileU}

InitExec ==
    /\ config_file \in ExecFiles
    /\ config_exists = TRUE
    /\ trailing = NoTrailing
    /\ cli_container \in {NONE, "podman run img"}
    /\ app_pattern = <<>>
    /\ action_pattern = <<>>
    /\ pc \in Callers
    /\ config = from_file(config_file).config
    /\ container_command = cli_container
    /\ matched_apps = <<>>
    /\ \E d \in DispatchesOf(config, pc) :
          /\ tasks = [k \in 1..Len(d) |-> NewTask(d[k][1], d[k][2])]
          /\ log_files = [k \in 1..Len(d) |-> NONE]
    /\ awaitIdx = 1
    /\ total_success = 0
    /\ total_failure = 0
    /\ failed_commands = <<>>
    /\ stdout = <<>>
    /\ stderr = <<>>
    /\ ci_result = NONE
    /\ exit_code = NoExitCode
    /\ overtaken = FALSE
    /\ MatchIdle
    /\ EscIdle
    /\ TuiIdle

\* execute_command up to the spawn, with the show_output of the caller
ExecLaunch(i) ==
    /\ pc \in Callers
    /\ tasks[i].pc = "spawned"
    /\ \E wdExists \in BOOLEAN, dirOk \in BOOLEAN, fileOk \in BOOLEAN,
          spawnOk \in BOOLEAN, now \in Seconds, homeOk \in BOOLEAN :
         LET env == [wdExists |-> wdExists, dirOk |-> dirOk, fileOk |-> fileOk,
                     spawnOk |-> spawnOk, now |-> now, home |-> home_dir(homeOk)]
             t == execute_command_launch(config, tasks[i], container_command,
                                         ShowOutputAt(pc), env)
         IN  /\ tasks' = [tasks EXCEPT ![i] = t]
             /\ log_files' =
                  [log_files EXCEPT ![i] =
                      IF t.stage = "none" THEN NONE
                      ELSE generate_log_path(config, t.app, t.action, env)]
    /\ UNCHANGED << inputVars, pc, config, container_command, matched_apps,
                    awaitIdx, aggVars, stdout, stderr, ci_result, exit_code,
                    overtaken, matchVars, escVars, tuiVars >>

\* the subprocess exits, or is killed by a signal
ExecExit(i) ==
    /\ pc \in Callers
    /\ tasks[i].pc = "running"
    /\ \E status \in ExitStatuses :
         tasks' = [tasks EXCEPT ![i] = execute_command_finish(tasks[i], status)]
    /\ UNCHANGED << inputVars, pc, config, container_command, matched_apps,
                    awaitIdx, aggVars, stdout, stderr, ci_result, exit_code,
                    overtaken, log_files, matchVars, escVars, tuiVars >>

NextExec ==
    \/ \E i \in 1..Len(tasks) : ExecLaunch(i)
    \/ \E i \in 1..Len(tasks) : ExecExit(i)

SpecExec == InitExec /\ [][NextExec]_vars

\* ------------------------------------------------------------------------
\* executor.rs: shell_escape and build_full_command
\* ------------------------------------------------------------------------

SQ == "'"

DQ == "\""

BS == "\\"

\* s.replace: every single quote becomes the five characters SQ DQ SQ DQ SQ
RECURSIVE ReplaceQuotes(_)
ReplaceQuotes(s) ==
    IF s = <<>> THEN <<>>
    ELSE (IF Head(s) = SQ THEN <<SQ, DQ, SQ, DQ, SQ>> ELSE <<Head(s)>>)
         \o ReplaceQuotes(Tail(s))

\* faulty variant: embedded single quotes are left as they are
shell_escape_unreplaced(s) == <<SQ>> \o s \o <<SQ>>

\* format! puts the replaced string between two single quotes
shell_escape(s) == <<SQ>> \o ReplaceQuotes(s) \o <<SQ>>

\* Option<&str>
None == [some |-> FALSE, value |-> <<>>]

Some(v) == [some |-> TRUE, value |-> v]

BASH_C == <<"b", "a", "s", "h", " ", "-", "c", " ">>

BASH_LC == <<" ", "b", "a", "s", "h", " ", "-", "l", "c", " ">>

build_full_command(command, working_dir, container_cmd) ==
    IF container_cmd.some
    THEN IF working_dir.some
         THEN container_cmd.value \o BASH_LC \o <<DQ, "c", "d", " ">>
              \o shell_escape(working_dir.value) \o <<" ", "&", "&", " ">>
              \o command \o <<DQ>>
         ELSE container_cmd.value \o BASH_LC \o <<DQ>> \o command \o <<DQ>>
    ELSE BASH_C \o shell_escape(command)

\* The characters the checked strings are made of: a letter, the two
\* quotes, the blank, the backslash, the dollar sign and an operator
EscapeAlphabet == {"a", SQ, DQ, " ", BS, "$", "|"}

MaxEscapeLen == 3

EscapeStrings == SeqsUpTo(EscapeAlphabet, MaxEscapeLen)

work_dir == <<"/", "w", " ", SQ, "d">>

docker == <<"d", "k">>

InitEscape ==
    /\ esc_fn \in {"shell_escape", "build_full_command"}
    /\ \E s \in EscapeStrings :
         IF esc_fn = "shell_escape"
         THEN esc_args = [command |-> s, working_dir |-> None,
                          container_command |-> None]
         ELSE esc_args \in [command : {s}, working_dir : {None, Some(work_dir)},
                            container_command : {None, Some(docker)}]
    /\ esc_out = <<>>
    /\ esc_pc = "call"
    /\ CiIdle
    /\ MatchIdle
    /\ TuiIdle

ShellEscape ==
    /\ esc_pc = "call"
    /\ esc_fn = "shell_escape"
    /\ esc_out' = shell_escape(esc_args.command)
    /\ esc_pc' = "done"
    /\ UNCHANGED << esc_fn, esc_args, ciVars, matchVars, tuiVars >>

BuildFullCommand ==
    /\ esc_pc = "call"
    /\ esc_fn = "build_full_command"
    /\ esc_out' = build_full_command(esc_args.command, esc_args.working_dir,
                                     esc_args.container_command)
    /\ esc_pc' = "done"
    /\ UNCHANGED << esc_fn, esc_args, ciVars, matchVars, tuiVars >>

NextEscape == ShellEscape \/ BuildFullCommand

SpecEscape == InitEscape /\ [][NextEscape]_vars

\* ------------------------------------------------------------------------
\* tui.rs: the interactive menu
\* ------------------------------------------------------------------------
\* Indices are 0-based as in the source: filtered_items holds indices into
\* menu_items, selected_items holds indices into filtered_items.

ActionItem(app, action) == [kind |-> "Action", app |-> app, action |-> action]

ShowDetailsItem(app) == [kind |-> "ShowDetails", app |-> app, action |-> <<>>]

\* run_interactive, lines 24-36: per application its actions, then its
\* Show Details row
RECURSIVE MenuItemsFrom(_, _)
MenuItemsFrom(cfg, k) ==
    IF k > Len(cfg.apps) THEN <<>>
    ELSE [j \in 1..Len(get_actions(cfg, cfg.apps[k])) |->
             ActionItem(cfg.apps[k], get_actions(cfg, cfg.apps[k])[j])]
         \o <<ShowDetailsItem(cfg.apps[k])>>
         \o MenuItemsFrom(cfg, k + 1)

menu_items == MenuItemsFrom(config, 1)

SHOW_DETAILS == <<"S", "h", "o", "w", " ", "D", "e", "t", "a", "i", "l", "s">>

\* the text a menu row is filtered by
ItemText(item) ==
    IF item.kind = "Action" THEN Label(item.app, item.action)
    ELSE Label(item.app, SHOW_DETAILS)

\* slice::get(i) is Some
HasIndex(seq, i) == i < Len(seq)

\* the element at the 0-based index i
At(seq, i) == seq[i + 1]

\* usize::saturating_sub
SaturatingSub(a, b) == IF a > b THEN a - b ELSE 0

Min(a, b) == IF a < b THEN a ELSE b

RECURSIVE FilterFrom(_, _, _)
FilterFrom(items, filter_lower, k) ==
    IF k > Len(items) THEN <<>>
    ELSE (IF Contains(ToLower(ItemText(items[k])), filter_lower)
          THEN <<k - 1>> ELSE <<>>)
         \o FilterFrom(items, filter_lower, k + 1)

\* App::filter_items
filter_items(a, items) ==
    LET filtered == IF a.filter = <<>>
                    THEN [k \in 1..Len(items) |-> k - 1]
                    ELSE FilterFrom(items, ToLower(a.filter), 1)
    IN  [a EXCEPT !.filtered_items = filtered,
                  !.selected_index =
                      IF a.selected_index >= Len(filtered) /\ filtered # <<>>
                      THEN Len(filtered) - 1
                      ELSE IF filtered = <<>> THEN 0
                      ELSE a.selected_index]

\* App::is_selected
is_selected(a, filtered_idx) == SeqContains(a.selected_items, filtered_idx)

\* Vec::remove at the first position of x
RECURSIVE RemoveFirst(_, _)
RemoveFirst(seq, x) ==
    IF seq = <<>> THEN <<>>
    ELSE IF Head(seq) = x THEN Tail(seq)
    ELSE <<Head(seq)>> \o RemoveFirst(Tail(seq), x)

\* App::toggle_selection
toggle_selection(a, filtered_idx) ==
    IF is_selected(a, filtered_idx)
    THEN [a EXCEPT !.selected_items = RemoveFirst(@, filtered_idx)]
    ELSE [a EXCEPT !.selected_items = Append(@, filtered_idx)]

\* App::select_all_filtered
select_all_filtered(a) ==
    [a EXCEPT !.selected_items = [k \in 1..Len(a.filtered_items) |-> k - 1]]

\* App::deselect_all_filtered
deselect_all_filtered(a) == [a EXCEPT !.selected_items = <<>>]

PAGE_SIZE == 10

\* faulty variant: Down moves the cursor whatever the length of the list
CursorDownUnguarded(a) == a.selected_index + 1

\* KeyCode::Down
CursorDown(a) ==
    IF a.selected_index < SaturatingSub(Len(a.filtered_items), 1)
    THEN a.selected_index + 1
    ELSE a.selected_index

\* KeyCode::Up
CursorUp(a) == IF a.selected_index > 0 THEN a.selected_index - 1 ELSE a.selected_index

\* KeyCode::PageUp
CursorPageUp(a) == SaturatingSub(a.selected_index, PAGE_SIZE)

\* KeyCode::PageDown
CursorPageDown(a) ==
    Min(a.selected_index + PAGE_SIZE, SaturatingSub(Len(a.filtered_items), 1))

\* execute_selected, lines 357-385: the menu items a task is spawned for,
\* in the order of selected_items
RECURSIVE SelectedHandlesFrom(_, _, _)
SelectedHandlesFrom(a, items, k) ==
    IF k > Len(a.selected_items) THEN <<>>
    ELSE (IF /\ HasIndex(a.filtered_items, a.selected_items[k])
             /\ At(items, At(a.filtered_items, a.selected_items[k])).kind = "Action"
          THEN <<At(a.filtered_items, a.selected_items[k])>>
          ELSE <<>>)
         \o SelectedHandlesFrom(a, items, k + 1)

SelectedHandles(a, items) == SelectedHandlesFrom(a, items, 1)

\* what handle.await yields for a spawned task
TaskOutcomes == {"OkTrue", "OkFalse", "Err", "JoinErr"}

\* what execute_command returns to execute_single
SingleOutcomes == {"OkTrue", "OkFalse", "Err"}

\* execute_selected, lines 387-397: Ok(Ok(success)) keeps the boolean, every
\* other result is pushed as false and nothing is printed
SelectedOutcome(res) == [success |-> res = "OkTrue", diag |-> FALSE]

\* execute_selected, lines 399-411
SelectedSummary(results) ==
    LET success_count == Cardinality({k \in 1..Len(results) : results[k].success})
        failure_count == Len(results) - success_count
    IN  IF Len(results) > 1
        THEN <<[kind |-> "summary", successful |-> success_count]>>
             \o (IF failure_count > 0
                 THEN <<[kind |-> "failed_count", failed |-> failure_count]>>
                 ELSE <<>>)
        ELSE <<>>

PressEnterLine == [kind |-> "press_enter"]

\* the characters typed into the filter
FilterChars == {"w", "z"}

MaxFilter == 1

MaxMarks == 2

\* run_interactive has built the menu and is about to set the terminal up
InitTui ==
    /\ config_file = FileA
    /\ config_exists = TRUE
    /\ trailing = NoTrailing
    /\ cli_container = NONE
    /\ app_pattern = <<>>
    /\ action_pattern = <<>>
    /\ pc = "setup"
    /\ config = from_file(config_file).config
    /\ container_command = NONE
    /\ matched_apps = <<>>
    /\ tasks = <<>>
    /\ awaitIdx = 1
    /\ total_success = 0
    /\ total_failure = 0
    /\ failed_commands = <<>>
    /\ stdout = <<>>
    /\ stderr = <<>>
    /\ ci_result = NONE
    /\ exit_code = NoExitCode
    /\ overtaken = FALSE
    /\ log_files = <<>>
    /\ TuiIdle
    /\ MatchIdle
    /\ EscIdle

\* what no key of the menu changes
menuFrame ==
    << inputVars, config, container_command, matched_apps, tasks, awaitIdx,
       aggVars, ci_result, overtaken, log_files, matchVars, escVars >>

\* a key that only moves the cursor or edits the filter
MenuEdit(a) ==
    /\ tui_app' = a
    /\ UNCHANGED << pc, exit_code, stdout, stderr, tui_results, launched,
                    marked, termVars, menuFrame >>

\* the calls of run_interactive's terminal setup, lines 39-43, and "ok"
SetupOutcomes == {"ok", "enable_raw_mode", "EnterAlternateScreen", "Terminal::new"}

\* the calls that restore the terminal, lines 59-61, and "ok"
RestoreOutcomes ==
    {"ok", "restore_disable_raw_mode", "restore_LeaveAlternateScreen",
     "restore_show_cursor"}

RestoreErrors == RestoreOutcomes \ {"ok"}

\* the calls of run_app that can fail outside an execution, lines 129-133
LoopErrors == {"draw", "read"}

\* the calls at the head of execute_single, execute_selected and
\* show_details
SuspendErrors == {"disable_raw_mode", "LeaveAlternateScreen"}

\* the calls at their tail, and "ok"
ResumeOutcomes == {"ok", "read_line", "enable_raw_mode", "EnterAlternateScreen"}

\* run_interactive, lines 38-54: the terminal setup; each call ends
\* run_interactive with its error when it fails, with nothing undone
Setup ==
    /\ pc = "setup"
    /\ \E r \in SetupOutcomes :
         /\ raw_mode' = (r # "enable_raw_mode")
         /\ alternate_screen' = (r \in {"ok", "Terminal::new"})
         /\ IF r = "ok"
            THEN /\ pc' = "menu"
                 /\ tui_app' = filter_items(tui_app, menu_items)
                 /\ UNCHANGED << exit_code, tui_error >>
            ELSE /\ pc' = "ended"
                 /\ exit_code' = 1
                 /\ tui_error' = r
                 /\ UNCHANGED tui_app
    /\ UNCHANGED << marked, stdout, stderr, tui_results, launched, menuFrame >>

\* run_interactive, lines 56-63: run_app has returned result (NONE for Ok)
\* with the terminal in the state raw / alt; the terminal is restored, each
\* call with `?`, and main exits with 0 for Ok and with 1 for an error
Restore(raw, alt, result) ==
    \E r \in RestoreOutcomes :
       /\ raw_mode' = IF r = "restore_disable_raw_mode" THEN raw ELSE FALSE
       /\ alternate_screen' =
             IF r \in {"restore_disable_raw_mode", "restore_LeaveAlternateScreen"}
             THEN alt ELSE FALSE
       /\ tui_error' = IF r = "ok" THEN result ELSE r
       /\ pc' = "ended"
       /\ exit_code' = IF r = "ok" /\ result = NONE THEN 0 ELSE 1

\* terminal.draw or event::read fails: run_app returns the error
LoopError ==
    /\ pc = "menu"
    /\ \E e \in LoopErrors : Restore(raw_mode, alternate_screen, e)
    /\ UNCHANGED << tui_app, stdout, stderr, tui_results, launched, marked,
                    menuFrame >>

\* KeyCode::Esc: run_app returns Ok
KeyEsc ==
    /\ pc = "menu"
    /\ Restore(raw_mode, alternate_screen, NONE)
    /\ UNCHANGED << tui_app, stdout, stderr, tui_results, launched, marked,
                    menuFrame >>

KeyUp ==
    /\ pc = "menu"
    /\ MenuEdit([tui_app EXCEPT !.selected_index = CursorUp(tui_app)])

KeyDown ==
    /\ pc = "menu"
    /\ MenuEdit([tui_app EXCEPT !.selected_index = CursorDown(tui_app)])

KeyPageUp ==
    /\ pc = "menu"
    /\ MenuEdit([tui_app EXCEPT !.selected_index = CursorPageUp(tui_app)])

KeyPageDown ==
    /\ pc = "menu"
    /\ MenuEdit([tui_app EXCEPT !.selected_index = CursorPageDown(tui_app)])

\* KeyCode::Char(' '): toggles the mark of the row under the cursor if that
\* row is an Action. The user has marked, or unmarked, the item of that row.
KeySpace ==
    /\ pc = "menu"
    /\ IF /\ HasIndex(tui_app.filtered_items, tui_app.selected_index)
          /\ At(menu_items, At(tui_app.filtered_items, tui_app.selected_index)).kind
               = "Action"
       THEN /\ is_selected(tui_app, tui_app.selected_index)
               \/ Len(tui_app.selected_items) < MaxMarks
            /\ tui_app' = toggle_selection(tui_app, tui_app.selected_index)
            /\ marked' =
                 IF is_selected(tui_app, tui_app.selected_index)
                 THEN marked \ {At(tui_app.filtered_items, tui_app.selected_index)}
                 ELSE marked \cup {At(tui_app.filtered_items, tui_app.selected_index)}
       ELSE UNCHANGED << tui_app, marked >>
    /\ UNCHANGED << pc, exit_code, stdout, stderr, tui_results, launched,
                    termVars, menuFrame >>

\* KeyCode::Char('+'): every row of the filtered list gets a mark. The user
\* has marked the Action items on display.
KeyPlus ==
    /\ pc = "menu"
    /\ tui_app' = select_all_filtered(tui_app)
    /\ marked' = {At(tui_app.filtered_items, k - 1) :
                    k \in {j \in 1..Len(tui_app.filtered_items) :
                             At(menu_items, At(tui_app.filtered_items, j - 1)).kind
                               = "Action"}}
    /\ UNCHANGED << pc, exit_code, stdout, stderr, tui_results, launched,
                    termVars, menuFrame >>

\* KeyCode::Char('-')
KeyMinus ==
    /\ pc = "menu"
    /\ tui_app' = deselect_all_filtered(tui_app)
    /\ marked' = {}
    /\ UNCHANGED << pc, exit_code, stdout, stderr, tui_results, launched,
                    termVars, menuFrame >>

\* KeyCode::Backspace: filter.pop(), filter_items()
KeyBackspace ==
    /\ pc = "menu"
    /\ MenuEdit(filter_items(
          [tui_app EXCEPT !.filter = IF @ = <<>> THEN <<>>
                                     ELSE SubSeq(@, 1, Len(@) - 1)],
          menu_items))

\* KeyCode::Delete: filter.clear(), filter_items()
KeyDelete ==
    /\ pc = "menu"
    /\ MenuEdit(filter_items([tui_app EXCEPT !.filter = <<>>], menu_items))

\* KeyCode::Char(c): filter.push(c), filter_items(), selected_index = 0
KeyChar ==
    /\ pc = "menu"
    /\ Len(tui_app.filter) < MaxFilter
    /\ \E c \in FilterChars :
         MenuEdit([filter_items([tui_app EXCEPT !.filter = Append(@, c)], menu_items)
                     EXCEPT !.selected_index = 0])

\* KeyCode::Enter with marks: execute_selected up to its read_line. run_app
\* handles no key while the spawned tasks run; what each task does is the
\* subject of SpecExec, here a task is what its handle yields.
EnterSelected ==
    LET handles == SelectedHandles(tui_app, menu_items)
    IN  \E outcomes \in [1..Len(handles) -> TaskOutcomes] :
          LET results == [k \in 1..Len(handles) |->
                            [item |-> handles[k], outcome |-> outcomes[k],
                             success |-> SelectedOutcome(outcomes[k]).success]]
              diags == {k \in 1..Len(handles) : SelectedOutcome(outcomes[k]).diag}
          IN  /\ stdout' = <<[kind |-> "executing_selected",
                              n |-> Len(tui_app.selected_items)]>>
                           \o SelectedSummary(results) \o <<PressEnterLine>>
              /\ stderr' = IF diags = {} THEN <<>>
                           ELSE <<[kind |-> "error_waiting", handles |-> diags]>>
              /\ tui_results' = results
              /\ launched' = handles
              /\ pc' = "confirm_selected"

\* KeyCode::Enter on an Action row: execute_single up to its read_line
EnterSingle(item_idx) ==
    \E outcome \in SingleOutcomes :
       /\ stdout' = <<[kind |-> "executing", item |-> item_idx], PressEnterLine>>
       /\ stderr' = <<>>
       /\ tui_results' = <<[item |-> item_idx, outcome |-> outcome,
                            success |-> outcome = "OkTrue"]>>
       /\ launched' = <<item_idx>>
       /\ pc' = "confirm_single"

\* KeyCode::Enter on a Show Details row: show_details up to its read_line
EnterDetails(item_idx) ==
    /\ stdout' = <<[kind |-> "details", item |-> item_idx], PressEnterLine>>
    /\ stderr' = <<>>
    /\ tui_results' = <<>>
    /\ launched' = <<>>
    /\ pc' = "confirm_details"

\* the head of an execution failed: disable_raw_mode, or LeaveAlternateScreen
\* after it; nothing is run, run_app returns the error
EnterFailed(e) ==
    /\ Restore(IF e = "disable_raw_mode" THEN raw_mode ELSE FALSE,
               alternate_screen, e)
    /\ UNCHANGED << stdout, stderr, tui_results, launched >>

KeyEnter ==
    /\ pc = "menu"
    /\ IF tui_app.selected_items = <<>>
          /\ ~HasIndex(tui_app.filtered_items, tui_app.selected_index)
       THEN UNCHANGED << pc, stdout, stderr, tui_results, launched, exit_code,
                         termVars >>
       ELSE \/ \E e \in SuspendErrors : EnterFailed(e)
            \/ /\ raw_mode' = FALSE
               /\ alternate_screen' = FALSE
               /\ UNCHANGED << exit_code, tui_error >>
               /\ IF tui_app.selected_items # <<>>
                  THEN EnterSelected
                  ELSE LET item_idx == At(tui_app.filtered_items,
                                          tui_app.selected_index)
                       IN  IF At(menu_items, item_idx).kind = "Action"
                           THEN EnterSingle(item_idx)
                           ELSE EnterDetails(item_idx)
    /\ UNCHANGED << tui_app, marked, menuFrame >>

\* The user answers "Press Enter to continue...": read_line, then
\* enable_raw_mode and EnterAlternateScreen, each with `?`; when they
\* succeed the execution returns to run_app. execute_selected and
\* show_details return Ok, and after execute_selected the marks are cleared;
\* execute_single returns what execute_command returned. An Err leaves
\* run_app. The menu covers the lines of the execution.
Confirm ==
    /\ pc \in {"confirm_selected", "confirm_single", "confirm_details"}
    /\ \E r \in ResumeOutcomes :
         LET result == IF r # "ok" THEN r
                       ELSE IF pc = "confirm_single" /\ tui_results[1].outcome = "Err"
                       THEN "execute_command"
                       ELSE NONE
             raw == r \in {"ok", "EnterAlternateScreen"}
             alt == r = "ok"
         IN  IF result # NONE
             THEN /\ Restore(raw, alt, result)
                  /\ UNCHANGED << tui_app, marked, stdout, stderr, tui_results,
                                  launched >>
             ELSE /\ pc' = "menu"
                  /\ raw_mode' = raw
                  /\ alternate_screen' = alt
                  /\ UNCHANGED << exit_code, tui_error >>
                  /\ tui_app' = IF pc = "confirm_selected"
                                THEN [tui_app EXCEPT !.selected_items = <<>>]
                                ELSE tui_app
                  /\ marked' = IF pc = "confirm_selected" THEN {} ELSE marked
                  /\ stdout' = <<>>
                  /\ stderr' = <<>>
                  /\ tui_results' = <<>>
                  /\ launched' = <<>>
    /\ UNCHANGED menuFrame

NextTui ==
    \/ Setup
    \/ LoopError
    \/ KeyEsc
    \/ KeyUp
    \/ KeyDown
    \/ KeyPageUp
    \/ KeyPageDown
    \/ KeyEnter
    \/ KeySpace
    \/ KeyPlus
    \/ KeyMinus
    \/ KeyBackspace
    \/ KeyDelete
    \/ KeyChar
    \/ Confirm

SpecTui == InitTui /\ [][NextTui]_vars

\* ------------------------------------------------------------------------
\* Properties
\* ------------------------------------------------------------------------

\* execute_ci_mode has been entered and has finished its resolution
CiCalled ==
    \/ pc \in {"await", "ci_err"}
    \/ (pc = "exited" /\ config.apps # <<>>)

\* the matched actions of one application
MatchedActionsOf(app) == match_actions_fuzzy(get_actions(config, app), action_pattern)

\* the resolver output: applications in matched order, each with its
\* actions in matched order
RECURSIVE TargetsFrom(_, _)
TargetsFrom(apps, k) ==
    IF k > Len(apps) THEN <<>>
    ELSE [j \in 1..Len(MatchedActionsOf(apps[k])) |->
             <<apps[k], MatchedActionsOf(apps[k])[j]>>]
         \o TargetsFrom(apps, k + 1)

ResolvedTargets == TargetsFrom(match_apps_fuzzy(config.apps, app_pattern), 1)

TaskIds == 1..Len(tasks)

\* the subprocess of task k ran and exited with code 0
ExitedZero(k) ==
    /\ tasks[k].subprocess = "exited"
    /\ tasks[k].status = [signalled |-> FALSE, code |-> 0]

TaskFailed(k) == tasks[k].pc = "done" /\ ~ExitedZero(k)

TaskLabel(k) == Label(tasks[k].app, tasks[k].action)

\* the summary block has been printed
SummaryPrinted == \E k \in 1..Len(stdout) : stdout[k].kind = "summary"

\* the labels printed under "Failed commands:", in print order
RECURSIVE PrintedFailedFrom(_)
PrintedFailedFrom(k) ==
    IF k > Len(stdout) THEN <<>>
    ELSE IF stdout[k].kind = "failed_command"
         THEN <<stdout[k].label>> \o PrintedFailedFrom(k + 1)
    ELSE PrintedFailedFrom(k + 1)

PrintedFailed == PrintedFailedFrom(1)

\* the labels of the failed targets in dispatch order
RECURSIVE FailedLabelsFrom(_)
FailedLabelsFrom(k) ==
    IF k > Len(tasks) THEN <<>>
    ELSE IF TaskFailed(k) THEN <<TaskLabel(k)>> \o FailedLabelsFrom(k + 1)
    ELSE FailedLabelsFrom(k + 1)

Count(seq, x) == Cardinality({k \in 1..Len(seq) : seq[k] = x})

\* C1: in a dispatch of two or more targets, one task is spawned per
\* resolved target, and whenever a summary or an exit code exists every
\* task has run to completion and every handle has been awaited, whatever
\* the results of the tasks (nonzero exit, failure before spawn, panic).
C1_AllTargetsAwaited ==
    CiCalled =>
        LET targets == ResolvedTargets
        IN  Len(targets) >= 2 =>
              /\ Len(tasks) = Len(targets)
              /\ \A k \in TaskIds : <<tasks[k].app, tasks[k].action>> = targets[k]
              /\ (SummaryPrinted \/ pc = "exited") =>
                    /\ awaitIdx = Len(tasks) + 1
                    /\ \A k \in TaskIds : tasks[k].pc = "done"

\* three targets: one failed before spawn, one panicked, and the third
\* still ran to a successful exit before the process ended
C1_Witness ==
    /\ pc = "exited"
    /\ Len(tasks) = 3
    /\ \E a, b, c \in TaskIds :
         /\ tasks[a].error = "WorkingDirectoryNotFound"
         /\ tasks[b].result = "JoinErr"
         /\ tasks[c].result = "OkTrue"

\* C2: once every handle has been awaited, the two totals add up to the
\* number of targets, total_success counts the subprocesses that exited
\* with code 0, and failed_commands holds one label per other target.
C2_TotalsPartitionTargets ==
    (pc \in {"await", "exited"} /\ tasks # <<>> /\ awaitIdx > Len(tasks)) =>
        /\ total_success + total_failure = Len(tasks)
        /\ total_success = Cardinality({k \in TaskIds : ExitedZero(k)})
        /\ Len(failed_commands) = Cardinality({k \in TaskIds : TaskFailed(k)})
        /\ \A k \in TaskIds :
             TaskFailed(k) =>
                Count(failed_commands, TaskLabel(k)) =
                    Cardinality({j \in TaskIds : TaskFailed(j) /\ TaskLabel(j) = TaskLabel(k)})

\* three targets, only the second exits nonzero: success = 2, failure = 1
C2_Witness ==
    /\ pc = "exited"
    /\ Len(tasks) = 3
    /\ ExitedZero(1) /\ ExitedZero(3)
    /\ tasks[2].subprocess = "exited" /\ ~ExitedZero(2)
    /\ total_success = 2 /\ total_failure = 1
    /\ failed_commands = <<TaskLabel(2)>>

\* C3: the process ends with exit code 0 or 1, and with 0 exactly when
\* at least one target was resolved and every dispatched target
\* succeeded.
C3_ExitCodeZeroIffAllSucceeded ==
    pc = "exited" =>
        /\ exit_code \in {0, 1}
        /\ exit_code = 0 <=>
              /\ CiCalled
              /\ tasks # <<>>
              /\ \A k \in TaskIds : ExitedZero(k)
              /\ Len(tasks) = Len(ResolvedTargets)

\* a multi-target invocation that ends with exit code 0
C3_Witness ==
    /\ pc = "exited"
    /\ exit_code = 0
    /\ Len(tasks) >= 2
    /\ \A k \in TaskIds : ExitedZero(k)

\* C4: when resolution yields no target, execute_ci_mode returns an
\* error, no task exists (so no subprocess), and neither banner nor
\* summary has been printed.
C4_NoTargetsNoLaunch ==
    (CiCalled /\ ResolvedTargets = <<>>) =>
        /\ ci_result \in {"No matching applications", "No actions found"}
        /\ pc \in {"ci_err", "exited"}
        /\ tasks = <<>>
        /\ stdout = <<>>

\* applications matched, none of them has a matching action
C4_Witness ==
    /\ pc = "ci_err"
    /\ matched_apps # <<>>
    /\ ResolvedTargets = <<>>
    /\ ci_result = "No actions found"

\* the warnings printed for applications without matching actions
WarnedApps == {stderr[k].app : k \in {j \in 1..Len(stderr) : stderr[j].kind = "no_actions_warning"}}

\* C5: a matched application without matching actions gets a warning and
\* nothing else: the matched actions of the other applications are all
\* dispatched, and 'no actions' is the result only if no matched
\* application has a matching action.
C5_EmptyAppsOnlyWarn ==
    (CiCalled /\ matched_apps # <<>>) =>
        LET apps == SeqToSet(matched_apps)
            actionsOf == [a \in apps |-> MatchedActionsOf(a)]
        IN  /\ WarnedApps = {a \in apps : actionsOf[a] = <<>>}
            /\ (ci_result = "No actions found") <=>
                  (\A a \in apps : actionsOf[a] = <<>>)
            /\ (ci_result = NONE) =>
                  \A a \in apps :
                     \A j \in 1..Len(actionsOf[a]) :
                        \E k \in TaskIds :
                           /\ tasks[k].app = a
                           /\ tasks[k].action = actionsOf[a][j]

\* an application was warned about and the others were dispatched
C5_Witness ==
    /\ pc = "exited"
    /\ WarnedApps # {}
    /\ tasks # <<>>
    /\ \A k \in TaskIds : tasks[k].pc = "done"

\* C6: the failed commands printed in the summary are the failed targets
\* in dispatch order, in whatever order the tasks completed, and dispatch
\* order is the order of the resolver output.
C6_FailedListInDispatchOrder ==
    SummaryPrinted =>
        /\ PrintedFailed = FailedLabelsFrom(1)
        /\ LET targets == ResolvedTargets
           IN  /\ Len(tasks) = Len(targets)
               /\ \A k \in TaskIds : <<tasks[k].app, tasks[k].action>> = targets[k]

\* every target failed, and some task completed before an
\* earlier-dispatched one
C6_Witness ==
    /\ SummaryPrinted
    /\ overtaken
    /\ Len(tasks) = 3
    /\ \A k \in TaskIds : TaskFailed(k)
    /\ TaskLabel(1) # TaskLabel(2)
    /\ Len(PrintedFailed) = 3

\* the "Error waiting for process" diagnostic printed for handle k
JoinErrorReported(k) ==
    \E n \in 1..Len(stderr) :
       stderr[n] = [kind |-> "error_waiting", handle |-> k]

\* C7 (as claimed): at exit every failed target has been shown: in a
\* single-target invocation by a status line naming it (or, for a task
\* that could not be joined, by the diagnostic of the await loop), in a
\* multi-target invocation by its label in the printed failed list.
C7_EveryFailureVisible ==
    pc = "exited" =>
        \A k \in TaskIds :
           TaskFailed(k) =>
              IF Len(tasks) = 1
              THEN \/ \E n \in 1..Len(tasks[k].lines) :
                         /\ tasks[k].lines[n].app = tasks[k].app
                         /\ tasks[k].lines[n].action = tasks[k].action
                   \/ JoinErrorReported(k)
              ELSE SeqContains(PrintedFailed, TaskLabel(k))

\* C8: on the host, a task whose working directory does not exist fails
\* with WorkingDirectoryNotFound, and it has spawned no subprocess and
\* created neither log directory nor log file.
C8_MissingWorkingDirFailsEarly ==
    \A k \in TaskIds :
       (container_command = NONE /\ tasks[k].launched /\ ~tasks[k].wdExists) =>
          /\ tasks[k].pc = "done"
          /\ tasks[k].result = "Err"
          /\ tasks[k].error = "WorkingDirectoryNotFound"
          /\ tasks[k].subprocess = "none"
          /\ ~tasks[k].logDirCreated
          /\ ~tasks[k].logFileCreated

C8_Witness ==
    /\ container_command = NONE
    /\ \E k \in TaskIds :
         /\ tasks[k].launched
         /\ ~tasks[k].wdExists
         /\ MapHas(config.working_dirs, tasks[k].app)
         /\ tasks[k].error = "WorkingDirectoryNotFound"

\* C9: with a container command in effect no task fails with a
\* working-directory error, and a task whose working directory does not
\* exist on the host goes on to the container launch: the container
\* invocation is spawned, unless creating the log file or the spawn itself
\* fails.
C9_ContainerNeverChecksWorkingDir ==
    \A k \in TaskIds :
       (container_command # NONE /\ tasks[k].launched) =>
          /\ tasks[k].error # "WorkingDirectoryNotFound"
          /\ ~tasks[k].wdExists =>
                /\ tasks[k].stage = "execute_in_container"
                /\ \/ tasks[k].subprocess # "none"
                   \/ tasks[k].error \in {"LogFileCreateError", "SpawnError"}

\* a configured working directory that is missing on the host, and the
\* container invocation ran to its exit
C9_Witness ==
    /\ container_command # NONE
    /\ \E k \in TaskIds :
         /\ MapHas(config.working_dirs, tasks[k].app)
         /\ ~tasks[k].wdExists
         /\ tasks[k].subprocess = "exited"

\* the names a pattern lists, and the same without repetitions, in order
\* of first occurrence
NamedApps == SplitPatterns(m_pattern)

RECURSIVE FirstOccurrences(_, _)
FirstOccurrences(seq, seen) ==
    IF seq = <<>> THEN <<>>
    ELSE IF seq[1] \in seen THEN FirstOccurrences(Tail(seq), seen)
    ELSE <<seq[1]>> \o FirstOccurrences(Tail(seq), seen \cup {seq[1]})

\* every sub-pattern is the exact name of a configured application
IsExactNameList == \A k \in 1..Len(NamedApps) : NamedApps[k] \in SeqToSet(m_apps)

NoDuplicates(seq) == \A i, j \in 1..Len(seq) : seq[i] = seq[j] => i = j

\* some listed name also selects another application, by the glob or the
\* substring rule
CrossMatch ==
    \E k \in 1..Len(NamedApps) : \E a \in SeqToSet(m_apps) :
       /\ a # NamedApps[k]
       /\ (GlobRule(NamedApps[k], a) \/ SubstringRule(NamedApps[k], a))

\* C10 (as claimed): for a pattern that lists exact application names the
\* result is exactly the listed applications, without duplicates, in order
\* of first occurrence in the pattern.
C10_ExactNamesReturnExactlyThose ==
    (m_pc = "done" /\ IsExactNameList) =>
        m_out = FirstOccurrences(NamedApps, {})

\* C10 (amended): the result has no duplicates and holds every listed
\* application, and besides them only applications that a listed name
\* selects by the glob or substring rule; when no listed name selects
\* another application, the result is exactly the listed applications in
\* order of first occurrence in the pattern.
C10_ExactNamesUpToCrossMatches ==
    (m_pc = "done" /\ IsExactNameList) =>
        /\ NoDuplicates(m_out)
        /\ SeqToSet(NamedApps) \subseteq SeqToSet(m_out)
        /\ \A a \in SeqToSet(m_out) :
              /\ a \in SeqToSet(m_apps)
              /\ \E k \in 1..Len(NamedApps) :
                    \/ NamedApps[k] = a
                    \/ GlobRule(NamedApps[k], a)
                    \/ SubstringRule(NamedApps[k], a)
        /\ ~CrossMatch => m_out = FirstOccurrences(NamedApps, {})

\* two applications listed against their declaration order, with blanks
\* around a name, and a third one left out
C10_Witness ==
    /\ m_pc = "done"
    /\ IsExactNameList
    /\ ~CrossMatch
    /\ Len(m_apps) = 3
    /\ Len(m_out) = 2
    /\ m_out = <<m_apps[3], m_apps[1]>>
    /\ m_pattern # JoinAll(m_out)

\* the sub-patterns went through the three rules (no "all" shortcut)
ThroughRules == m_pc = "done" /\ ~(m_fn = "actions" /\ m_pattern = ALL)

\* a glob wildcard character: '*', '?' or the opening of a bracket expression
HasWildcard(pat) == HasChar(pat, "*") \/ HasChar(pat, "?") \/ HasChar(pat, "[")

\* C11 (as claimed): every candidate name matched, as a glob pattern, by a
\* sub-pattern that contains '*', '?' or a bracket expression is in the
\* output, for applications and actions alike.
C11_WildcardPatternsGlobMatched ==
    ThroughRules =>
        \A k \in 1..Len(NamedApps) :
           HasWildcard(NamedApps[k]) =>
              \A a \in SeqToSet(m_apps) :
                 GlobMatches(NamedApps[k], a) => a \in SeqToSet(m_out)

\* C11 (amended): every candidate name matched, as a glob pattern, by a
\* sub-pattern that contains '*' is in the output ('?' and bracket
\* expressions in such a sub-pattern have their glob meaning); when no
\* sub-pattern contains '*', no glob matching takes place: every name in
\* the output is selected by the exact or the substring rule.
C11_StarPatternsGlobMatched ==
    ThroughRules =>
        /\ \A k \in 1..Len(NamedApps) :
              HasChar(NamedApps[k], "*") =>
                 \A a \in SeqToSet(m_apps) :
                    GlobMatches(NamedApps[k], a) => a \in SeqToSet(m_out)
        /\ (\A k \in 1..Len(NamedApps) : ~HasChar(NamedApps[k], "*")) =>
              \A a \in SeqToSet(m_out) :
                 \E k \in 1..Len(NamedApps) :
                    ExactRule(NamedApps[k], a) \/ SubstringRule(NamedApps[k], a)

\* an action selected by a bracket expression in a sub-pattern with '*',
\* which neither the exact nor the substring rule would select
C11_Witness ==
    /\ ThroughRules
    /\ m_fn = "actions"
    /\ \E k \in 1..Len(NamedApps) : \E a \in SeqToSet(m_out) :
          /\ HasChar(NamedApps[k], "*") /\ HasChar(NamedApps[k], "[")
          /\ GlobMatches(NamedApps[k], a)
          /\ \A j \in 1..Len(NamedApps) :
                ~ExactRule(NamedApps[j], a) /\ ~SubstringRule(NamedApps[j], a)

\* C12: the action pattern "all" returns the declared actions as they
\* are, in declaration order, whether or not a rule would select them;
\* every other pattern ("ALL", " all", "all,build") goes through the
\* rules: the output holds, without repetition, exactly the names that
\* some sub-pattern selects by the exact, glob or substring rule.
C12_AllSelectsEveryAction ==
    (m_pc = "done" /\ m_fn = "actions") =>
        IF m_pattern = ALL
        THEN m_out = m_apps
        ELSE /\ NoDuplicates(m_out)
             /\ SeqToSet(m_out) =
                   {a \in SeqToSet(m_apps) :
                      \E k \in 1..Len(NamedApps) : MatchesPat(NamedApps[k], a)}

\* "all" returned three declared actions, two of which no rule would
\* select for the sub-pattern "all"
C12_Witness ==
    /\ m_pc = "done"
    /\ m_fn = "actions"
    /\ m_pattern = ALL
    /\ Len(m_apps) = 3
    /\ m_out = m_apps
    /\ Cardinality({a \in SeqToSet(m_apps) : ~MatchesPat(ALL, a)}) = 2

\* C13 (as claimed): no two tasks of one invocation have the same
\* (application, action) target.
C13_NoTargetDispatchedTwice ==
    \A i, j \in TaskIds :
       (tasks[i].app = tasks[j].app /\ tasks[i].action = tasks[j].action) => i = j

\* C14: every spawned task's target is in the configuration: the
\* application is in config.apps, the action in the application's action
\* list, and get_command has a command for the pair.
C14_TargetsAreConfigured ==
    \A k \in TaskIds :
       /\ SeqContains(config.apps, tasks[k].app)
       /\ SeqContains(get_actions(config, tasks[k].app), tasks[k].action)
       /\ get_command(config, tasks[k].app, tasks[k].action) # NONE

\* targets selected by substring and glob patterns were spawned, and one
\* of them got past the command lookup
C14_Witness ==
    /\ Len(tasks) >= 2
    /\ app_pattern \notin SeqToSet(config.apps)
    /\ \E k \in TaskIds : tasks[k].launched /\ tasks[k].error # "NoCommand"

\* C15: a finished execute_command returned true exactly when its
\* subprocess exited with code 0; a subprocess killed by a signal makes it
\* return false, print the Failed line, and (once awaited) count as a
\* failure, on the host and in a container.
C15_SuccessIffExitZero ==
    \A k \in TaskIds :
       tasks[k].pc = "done" =>
          /\ tasks[k].result = "OkTrue" <=> ExitedZero(k)
          /\ (tasks[k].subprocess = "exited" /\ tasks[k].status.signalled) =>
                /\ tasks[k].result = "OkFalse"
                /\ tasks[k].lines[Len(tasks[k].lines)] =
                      StatusLine("Error", tasks[k].app, tasks[k].action)
                /\ awaitIdx > k => SeqContains(failed_commands, TaskLabel(k))

\* in a container, one subprocess was killed by a signal and another one
\* exited with code 0
C15_Witness ==
    /\ pc = "exited"
    /\ container_command # NONE
    /\ exit_code = 1
    /\ \E j, k \in TaskIds :
          /\ tasks[k].subprocess = "exited" /\ tasks[k].status.signalled
          /\ tasks[k].result = "OkFalse"
          /\ tasks[j].result = "OkTrue"

\* C16: a log-only task has a subprocess only after its log file was
\* created; a task whose log file cannot be created fails with
\* LogFileCreateError and never has a subprocess; and that failure stays
\* with its target: the other tasks still run and are counted by their own
\* results.
C16_LogFileBeforeSpawn ==
    \A k \in TaskIds :
       /\ (tasks[k].stdio = "log_file" /\ tasks[k].subprocess # "none") =>
             tasks[k].logFileCreated
       /\ tasks[k].error = "LogFileCreateError" =>
             /\ tasks[k].result = "Err"
             /\ tasks[k].subprocess = "none"
             /\ ~tasks[k].logFileCreated
             /\ pc = "exited" =>
                   /\ \A j \in TaskIds : tasks[j].pc = "done"
                   /\ total_success = Cardinality({j \in TaskIds : ExitedZero(j)})
                   /\ total_failure = Len(tasks) - total_success

\* the log file of the first task could not be created, and the second
\* task still ran and succeeded
C16_Witness ==
    /\ pc = "exited"
    /\ Len(tasks) = 2
    /\ tasks[1].error = "LogFileCreateError"
    /\ tasks[1].stage # "none"
    /\ ExitedZero(2)
    /\ total_success = 1 /\ total_failure = 1

\* a configuration has been loaded
ConfigLoaded == pc # "main" /\ config.apps # <<>>

\* C20 (as claimed): in a loaded configuration every application's action
\* list holds distinct identifiers, each bound to a command.
C20_ActionListsDistinct ==
    ConfigLoaded =>
        \A k \in 1..Len(config.apps) :
           /\ NoDuplicates(get_actions(config, config.apps[k]))
           /\ \A j \in 1..Len(get_actions(config, config.apps[k])) :
                 get_command(config, config.apps[k],
                             get_actions(config, config.apps[k])[j]) # NONE

\* tasks dispatched in parallel
Parallel == pc \in {"execute_ci_mode", "execute_selected"}

\* task k got as far as its launcher, so a log path was generated for it
ReachedLauncher(k) == tasks[k].stage # "none"

\* C17 (as claimed): two tasks of one parallel dispatch that run different
\* targets and have both created their log file have different log paths.
C17_LogPathsDistinct ==
    Parallel =>
        \A i, j \in TaskIds :
           ( /\ <<tasks[i].app, tasks[i].action>> # <<tasks[j].app, tasks[j].action>>
             /\ tasks[i].logFileCreated
             /\ tasks[j].logFileCreated ) =>
                log_files[i].path # log_files[j].path

\* C18: a task that reaches its launcher is log-only (output to the log
\* file the program created, nothing inherited) when it was dispatched in
\* parallel by the CI dispatcher or by the bulk execution of the menu; a
\* single execution from the menu inherits the terminal, on the host with
\* tee writing the log file, in a container with no log file at all.
C18_OutputRoutingByMode ==
    pc \in Callers =>
        \A k \in TaskIds :
           ReachedLauncher(k) =>
              IF Parallel
              THEN /\ ~tasks[k].show_output
                   /\ tasks[k].stdio = "log_file"
                   /\ tasks[k].log_writer = "subprocess"
              ELSE /\ tasks[k].show_output
                   /\ tasks[k].stdio = "inherit"
                   /\ IF container_command = NONE
                      THEN tasks[k].log_writer = "tee"
                      ELSE /\ tasks[k].log_writer = "none"
                           /\ ~tasks[k].logFileCreated

\* a single execution in a container ran to its exit: the log directory
\* was created, no log file was
C18_Witness ==
    /\ pc = "execute_single"
    /\ container_command # NONE
    /\ tasks[1].subprocess = "exited"
    /\ tasks[1].stdio = "inherit"
    /\ tasks[1].logDirCreated
    /\ ~tasks[1].logFileCreated

\* C19: every execution that gets past the working-directory check gets a
\* log path (generate_log_path cannot fail): the file
\* <timestamp>_<app>_<action>.log in the application's log_dir if it
\* declares one, else in the global log_dir if there is one, else in
\* 'logs' next to the executable; and when that directory cannot be
\* created, the same file name directly in the executable's directory.
C19_LogDirByPrecedence ==
    pc \in Callers =>
        \A k \in TaskIds :
           (tasks[k].launched /\ tasks[k].error # "WorkingDirectoryNotFound") =>
              /\ ReachedLauncher(k)
              /\ \E now \in Seconds :
                    log_files[k].path =
                       JoinPath(log_files[k].dir,
                                LogFileName(now, tasks[k].app, tasks[k].action))
              /\ IF tasks[k].logDirCreated
                 THEN \E homeOk \in BOOLEAN :
                        log_files[k].dir =
                          IF MapHas(config.log_dirs, tasks[k].app)
                          THEN expand_path(config.log_dirs[tasks[k].app], home_dir(homeOk))
                          ELSE IF config.global_log_dir # NONE
                          THEN expand_path(config.global_log_dir, home_dir(homeOk))
                          ELSE JoinPath(ScriptDir, LOGS)
                 ELSE log_files[k].dir = ScriptDir

\* with a global log_dir declared, one task logs into its application's
\* own log_dir (under the home directory), and the other one, whose log
\* directory could not be created, next to the executable, and it still
\* ran
C19_Witness ==
    /\ pc \in Callers
    /\ Len(tasks) = 2
    /\ config.global_log_dir # NONE
    /\ MapHas(config.log_dirs, tasks[1].app)
    /\ tasks[1].logDirCreated
    /\ log_files[1].dir = HomeDir \o <<"/", "l">>
    /\ ~tasks[2].logDirCreated
    /\ ReachedLauncher(2)
    /\ log_files[2].dir = ScriptDir
    /\ ExitedZero(2)

\* the completion lines (Success or Error) task k has printed
CompletionLines(k) ==
    {j \in 1..Len(tasks[k].lines) : tasks[k].lines[j].status \in {"Success", "Error"}}

StartPrinted(k) ==
    \E j \in 1..Len(tasks[k].lines) : tasks[k].lines[j].status = "Start"

\* C23 (as claimed): a task that printed its Start line and ran to its end
\* without panicking has printed exactly one completion line after it, also
\* when the launch failed after the Start line.
C23_StartThenOneCompletion ==
    CiCalled =>
        \A k \in TaskIds :
           (StartPrinted(k) /\ tasks[k].pc = "done" /\ tasks[k].result # "JoinErr") =>
              /\ Cardinality(CompletionLines(k)) = 1
              /\ tasks[k].lines[1].status = "Start"
              /\ \A j \in CompletionLines(k) : j > 1

\* the configuration the last CI argument describes
TrailingConfig == from_file(trailing.file)

\* C26 (as claimed): when the argument after the two patterns names an
\* existing, loadable .cfg file, main ends its loading with that file's
\* configuration in use, so that the patterns are resolved against it.
C26_TrailingConfigUsed ==
    (pc # "main" /\ IsTrailingConfig(trailing) /\ TrailingConfig.ok) =>
        config = TrailingConfig.config

\* two optional values are both absent, or both present and equal
SameOption(a, b) ==
    IF a = NONE THEN b = NONE
    ELSE IF b = NONE THEN FALSE
    ELSE a = b

\* C30 (as claimed): the container command targets are launched with is the
\* --container option if given, and else the global container setting of
\* the configuration in use (NONE: on the host).
C30_ContainerFromUsedConfig ==
    ConfigLoaded =>
        /\ SameOption(container_command,
                      IF cli_container # NONE THEN cli_container
                      ELSE config.global_container)
        /\ \A k \in TaskIds :
              ReachedLauncher(k) =>
                 tasks[k].stage = IF container_command # NONE
                                  THEN "execute_in_container"
                                  ELSE "execute_direct"

NoTaskRunning == \A k \in TaskIds : tasks[k].pc # "running"

\* the process has exited, with the aggregate exit code if targets were
\* dispatched
ExitedWithAggregate ==
    IF pc = "exited"
    THEN Len(tasks) >= 1 => exit_code = ExitCodeFor(total_failure)
    ELSE FALSE

\* C24: if no subprocess runs forever, the process eventually exits, with
\* the aggregate exit code when targets were dispatched; and as long as a
\* subprocess runs, no summary has been printed and the process has not
\* exited (the exit code is set by the step that ends the process).
C24_ExitsIffSubprocessesTerminate ==
    /\ ([]<>NoTaskRunning) =>
          <>ExitedWithAggregate
    /\ [](~NoTaskRunning => (pc # "exited" /\ ~SummaryPrinted))

\* two subprocesses ran and exited, the second one with a nonzero code, and
\* the process exited with the summary printed and exit code 1
C24_Witness ==
    /\ pc = "exited"
    /\ Len(tasks) = 2
    /\ \A k \in TaskIds : tasks[k].subprocess = "exited"
    /\ ExitedZero(1)
    /\ ~ExitedZero(2)
    /\ SummaryPrinted
    /\ exit_code = 1

\* what a variable reference or an operator leaves in a parsed command line
EXPANSION == "<expansion>"

OPERATOR == "<operator>"

NameStart(c) ==
    c \in {"a", "b", "c", "d", "e", "f", "g", "h", "i", "j", "k", "l", "m",
           "n", "o", "p", "q", "r", "s", "t", "u", "v", "w", "x", "y", "z", "_"}

\* `$` at position i starts a parameter expansion
Expands(s, i) == s[i] = "$" /\ i < Len(s) /\ NameStart(s[i + 1])

\* The words a POSIX shell reads from the line s (quoting of the Shell
\* Command Language, 2.2): outside quotes a blank ends a word and a
\* backslash makes the next character literal; between single quotes every
\* character is literal; between double quotes a backslash is an escape
\* only before a dollar sign, a double quote and a backslash (and before a
\* backquote, which no checked string holds), and a dollar sign still
\* expands.
\* mode: "plain", "single" or "double"; cur: the word being read;
\* inword: whether a word has begun (a quoted empty string is a word)
RECURSIVE ShellWordsFrom(_, _, _, _, _, _)
ShellWordsFrom(s, i, mode, cur, inword, words) ==
    IF i > Len(s)
    THEN IF mode # "plain" THEN [ok |-> FALSE, words |-> words]
         ELSE [ok |-> TRUE, words |-> IF inword THEN Append(words, cur) ELSE words]
    ELSE
      LET c == s[i]
          literal(ch, n) == ShellWordsFrom(s, i + n, mode, Append(cur, ch), TRUE, words)
      IN
      IF mode = "single"
      THEN IF c = SQ THEN ShellWordsFrom(s, i + 1, "plain", cur, TRUE, words)
           ELSE literal(c, 1)
      ELSE IF mode = "double"
      THEN IF c = DQ THEN ShellWordsFrom(s, i + 1, "plain", cur, TRUE, words)
           ELSE IF c = BS /\ i < Len(s) /\ s[i + 1] \in {"$", DQ, BS}
                THEN literal(s[i + 1], 2)
           ELSE IF Expands(s, i) THEN literal(EXPANSION, 2)
           ELSE literal(c, 1)
      ELSE IF c = " "
           THEN ShellWordsFrom(s, i + 1, "plain", <<>>, FALSE,
                               IF inword THEN Append(words, cur) ELSE words)
           ELSE IF c = SQ THEN ShellWordsFrom(s, i + 1, "single", cur, TRUE, words)
           ELSE IF c = DQ THEN ShellWordsFrom(s, i + 1, "double", cur, TRUE, words)
           ELSE IF c = BS /\ i < Len(s) THEN literal(s[i + 1], 2)
           ELSE IF c = "|"
                THEN ShellWordsFrom(s, i + 1, "plain", <<>>, FALSE,
                                    Append(IF inword THEN Append(words, cur) ELSE words,
                                           <<OPERATOR>>))
           ELSE IF Expands(s, i) THEN literal(EXPANSION, 2)
           ELSE literal(c, 1)

ShellWords(s) == ShellWordsFrom(s, 1, "plain", <<>>, FALSE, <<>>)

\* C25: the string shell_escape returns is read by a POSIX shell as one
\* word, equal to the argument, whatever quotes, blanks, backslashes,
\* dollar signs or operators the argument holds; and the host form of
\* build_full_command is read as the three words bash, -c and the command.
C25_ShellEscapeRoundTrips ==
    esc_pc = "done" =>
        /\ esc_fn = "shell_escape" =>
              ShellWords(esc_out) = [ok |-> TRUE, words |-> <<esc_args.command>>]
        /\ (esc_fn = "build_full_command" /\ ~esc_args.container_command.some) =>
              ShellWords(esc_out) =
                 [ok |-> TRUE,
                  words |-> << <<"b", "a", "s", "h">>, <<"-", "c">>, esc_args.command >>]

\* the host form of a command made of a single quote, a dollar sign and a
\* letter
C25_Witness ==
    /\ esc_pc = "done"
    /\ esc_fn = "build_full_command"
    /\ ~esc_args.container_command.some
    /\ esc_args.command = <<SQ, "$", "a">>
    /\ esc_out = BASH_C \o <<SQ, SQ, DQ, SQ, DQ, SQ, "$", "a", SQ>>
    /\ ShellWords(esc_out).words[3] = esc_args.command

\* run_app is running, or has returned
TuiRunning ==
    pc \in {"setup", "menu", "confirm_selected", "confirm_single",
            "confirm_details", "ended"}

\* the outcome of the k-th task of the bulk execution was a task-level
\* failure
JoinFailed(k) == tui_results[k].outcome = "JoinErr"

\* C21 (as claimed): in the bulk execution of the marked items, a task that
\* could not be joined is recorded as failed and a diagnostic about it is
\* printed.
C21_JoinFailureReportedInBulk ==
    pc = "confirm_selected" =>
        \A k \in 1..Len(tui_results) :
           JoinFailed(k) =>
              /\ ~tui_results[k].success
              /\ \E j \in 1..Len(stderr) :
                    stderr[j].kind = "error_waiting" /\ k \in stderr[j].handles

\* the line that announces the bulk execution
BulkBannerPrinted ==
    \E k \in 1..Len(stdout) : stdout[k].kind = "executing_selected"

\* C22 (as claimed): a bulk execution prints its banner and its summary
\* exactly if more than one target was dispatched.
C22_BannerAndSummaryIffSeveral ==
    pc = "confirm_selected" =>
        /\ BulkBannerPrinted <=> Len(launched) > 1
        /\ SummaryPrinted <=> Len(launched) > 1

\* the marked menu items that are Action items
MarkedActions == {m \in marked : At(menu_items, m).kind = "Action"}

\* C27 (as claimed): the items launched by Enter with a non-empty selection
\* are exactly the Action items the user marked, whatever filter edits were
\* made since.
C27_LaunchedAreMarked ==
    pc = "confirm_selected" => SeqToSet(launched) = MarkedActions

\* C28: whatever keys were pressed, the cursor is below the length of the
\* filtered list, and 0 when that list is empty.
C28_CursorInRange ==
    TuiRunning =>
        /\ tui_app.filtered_items # <<>> =>
              tui_app.selected_index < Len(tui_app.filtered_items)
        /\ tui_app.filtered_items = <<>> => tui_app.selected_index = 0

\* the cursor is on the last row of a list shortened by the filter
C28_Witness ==
    /\ pc = "menu"
    /\ tui_app.filter = <<"w">>
    /\ Len(tui_app.filtered_items) = 3
    /\ tui_app.selected_index = 2

\* the errors of the terminal and of standard input, as opposed to the
\* error of an execution
TerminalErrors ==
    (SetupOutcomes \cup RestoreOutcomes \cup ResumeOutcomes \cup LoopErrors
       \cup SuspendErrors) \ {"ok"}

\* C29 (as claimed): the session ends only through Esc, on which run_app
\* returns Ok and the process exits with code 0; no failure of a single
\* execution ends it.
C29_SessionEndsOnlyOnEsc ==
    (pc = "ended" /\ tui_error \notin TerminalErrors) => exit_code = 0

\* a sub-pattern that is empty after trimming
IsEmptySubPattern(pat) == pat = <<>>

\* C31: an empty sub-pattern selects nothing: every name in the output of
\* match_apps_fuzzy or match_actions_fuzzy is selected by a non-empty
\* sub-pattern through the exact, glob or substring rule.
C31_EmptySubPatternMatchesNothing ==
    ThroughRules =>
        \A a \in SeqToSet(m_out) :
           \E k \in 1..Len(NamedApps) :
              /\ ~IsEmptySubPattern(NamedApps[k])
              /\ MatchesPat(NamedApps[k], a)

\* raw mode is off and the alternate screen has been left
TerminalRestored == ~raw_mode /\ ~alternate_screen

\* an execution started from the menu is running or waits for Enter
ExecutionOnScreen ==
    pc \in {"confirm_selected", "confirm_single", "confirm_details"}

\* C32 (as claimed): whenever run_interactive has returned, after Esc or
\* after an I/O error in the terminal setup, in drawing, in reading an event
\* or in an execution, the terminal is restored; and from the start of an
\* execution until the user confirms with Enter the terminal is in its
\* normal state. A failure of the restoring calls themselves is not held
\* against the claim.
C32_TerminalRestoredOnReturn ==
    /\ (pc = "ended" /\ tui_error \notin RestoreErrors) => TerminalRestored
    /\ ExecutionOnScreen => TerminalRestored

====
